---- MODULE Spec2Model ----
(***************************************************************************)
(* Virtual Classroom: the assignment / submission workflow.                *)
(*                                                                         *)
(* Requests enter through the controllers, run the services' steps (one    *)
(* action per await that touches the database or the blob store) and end   *)
(* with the HTTP response the controller sends.  The relational store is   *)
(* PostgreSQL at READ COMMITTED: the tables below hold the committed rows,  *)
(* tx[p] holds the rows and row updates a transaction has written and not  *)
(* yet committed; statements sent to the pool see committed rows only.     *)
(***************************************************************************)
EXTENDS Integers, Sequences, FiniteSets, TLC

(***************************************************************************)
(* Bounds of the model.                                                    *)
(***************************************************************************)
MaxCalls == 3
MaxTicks == 3
MaxScanCalls == 2

(***************************************************************************)
(* Program constants.                                                      *)
(***************************************************************************)
\* tbls_user_roles: 'Tutor' is inserted first, 'Student' second (SERIAL ids).
TUTOR == 1
STUDENT == 2
\* tbls_submission_status: 'Submitted' is inserted first, 'Pending' second.
SUBMITTED == 1
PENDING == 2

\* HTTP statuses the services and controllers use.
Created == 201
Ok == 200
Forbidden == 403
NotFound == 404
InternalError == 500
\* error.status of an Error that carries no status field.
NoStatus == 0

Procs == {1, 2}

\* tblm_users is provisioned before the workflow runs and never changes.
Users ==
    { [id |-> 1, username |-> "t1", email |-> "t1@x", role_id |-> TUTOR],
      [id |-> 2, username |-> "t2", email |-> "t2@x", role_id |-> TUTOR],
      [id |-> 3, username |-> "s1", email |-> "s1@x", role_id |-> STUDENT],
      [id |-> 4, username |-> "s2", email |-> "s2@x", role_id |-> STUDENT] }

UserIds == { u.id : u \in Users }

\* The JWT carries any username: login never looks the user up.
Usernames == { u.username : u \in Users } \cup {"ghost"}


\* Values a request field takes when the client did not send it.
NoTitle == "undefined"
NoText == "undefined"
NoDate == 0
NoId == 0
NoKey == 0
NoUrl == << >>
NoFilter == "undefined"

\* Inputs the model draws: times are counted in half minutes, assignments
\* fall due at 120 (one hour after time 0).
Times == {1}
\* NOW() of a listing: before the deadlines, or after they have passed.
ListTimes == Times \cup {121}
StudentIdLists == { << >>, <<3>>, <<3, 4>>, <<3, 3>>, <<3, 9>> }
AssignmentIds == {1, 2}

VARIABLES
    assignments,        \* committed rows of tblm_assignments
    studentAssignments, \* committed rows of tblt_student_assignments
    submissions,        \* committed rows of tblm_submissions
    seq,                \* the SERIAL sequences of the three tables
    blobs,              \* keys of the objects in the S3 bucket
    nextKey,            \* the next uuidv4() (fresh on every call)
    pc,                 \* where each request is in its handler
    req,                \* the request a handler is serving (or served last)
    loc,                \* the handler's local variables
    tx,                 \* the transaction of the handler's client
    res,                \* the response the controller sent
    calls,              \* requests started so far
    before,             \* history: the stores as they were when the request arrived
    outbox,             \* the reminder mails the transporter accepted
    scan,               \* the scheduler's job: where it is, its clock, its rows
    log,                \* history: every sendMail call of the job
    pool                \* the clients checked out of the connection pool

dbVars == <<assignments, studentAssignments, submissions>>
storeVars == <<blobs, nextKey>>
scanVars == <<scan, log>>
vars == <<assignments, studentAssignments, submissions, seq, blobs, nextKey,
          pc, req, loc, tx, res, calls, before, outbox, scan, log, pool>>

(***************************************************************************)
(* Blob store: keys and URLs.                                              *)
(***************************************************************************)
\* `https://${bucket}.s3.${region}.amazonaws.com/${fileKey}`
S3Url(fileKey) == <<"https:", "", "bucket.s3.region.amazonaws.com", fileKey>>

\* s3Url.split('/').pop()
KeyOfUrl(url) == url[Len(url)]

(***************************************************************************)
(* Identity.                                                               *)
(***************************************************************************)
\* SELECT * FROM tblm_users WHERE username = $1 (the DAO throws on no row).
getUserByUsername(username) == { u \in Users : u.username = username }

(***************************************************************************)
(* Transactions.                                                           *)
(***************************************************************************)
NoTx == [open |-> FALSE, asg |-> {}, sa |-> {}, sub |-> {}, upd |-> {}]

\* pool.connect(): a client leaves the pool.
pool_connect == pool + 1

\* client.release(): the client goes back to the pool.
client_release == pool - 1

\* client.query('BEGIN') on the client pool.connect() returned.
beginTransaction == [NoTx EXCEPT !.open = TRUE]

\* Rows of tblt_student_assignments as a statement of transaction t sees them.
VisibleStudentAssignments(t) == studentAssignments \cup t.sa

\* client.query('COMMIT'): the transaction's rows and updates become the
\* committed rows, all at once.
CommitAssignments(t) == assignments \cup t.asg

CommitSubmissions(t) == submissions \cup t.sub

\* Variant: the status updates of the transaction are lost at COMMIT.
CommitStudentAssignments_NoUpdates(t) == studentAssignments \cup t.sa

CommitStudentAssignments(t) ==
    { IF r.id \in t.upd THEN [r EXCEPT !.status_id = SUBMITTED] ELSE r :
        r \in studentAssignments \cup t.sa }

\* Variants: ROLLBACK leaves the transaction's inserted rows behind.
RollbackAssignments_Keeps(t) == assignments \cup t.asg

RollbackSubmissions_Keeps(t) == submissions \cup t.sub

\* client.query('ROLLBACK'): the transaction's writes are discarded.
RollbackAssignments(t) == assignments

RollbackSubmissions(t) == submissions

RollbackStudentAssignments(t) == studentAssignments

(***************************************************************************)
(* Schema constraints (database/setup.sql).                                *)
(***************************************************************************)
\* Variant: tblm_submissions without its UNIQUE constraint.
SubmissionUniqueViolation_Dropped(rows, assignmentId, studentId) == FALSE

\* UNIQUE(assignment_id, student_id) on tblm_submissions.
SubmissionUniqueViolation(rows, assignmentId, studentId) ==
    \E r \in rows : r.assignment_id = assignmentId /\ r.student_id = studentId

\* UNIQUE(assignment_id, student_id) on tblt_student_assignments.
StudentAssignmentConflict(rows, assignmentId, studentId) ==
    \E r \in rows : r.assignment_id = assignmentId /\ r.student_id = studentId

\* assignment_id REFERENCES tblm_assignments(id), as transaction t sees it.
AssignmentExists(t, assignmentId) ==
    \E a \in assignments \cup t.asg : a.id = assignmentId

\* student_id REFERENCES tblm_users(id).
UserExists(userId) == userId \in UserIds

\* A second insert of a key another open transaction has inserted waits for
\* that transaction to end.
InsertWaits(p, assignmentId, studentId) ==
    \E q \in Procs \ {p} :
        /\ tx[q].open
        /\ SubmissionUniqueViolation(tx[q].sub, assignmentId, studentId)

\* Variant: DELETE never waits for another transaction.
DeleteWaits_Never(assignmentId) == FALSE

\* DELETE of an assignment waits for the open transactions that hold a lock on
\* it (a child row inserted under its key) or on one of its child rows.
DeleteWaits(assignmentId) ==
    \E q \in Procs :
        /\ tx[q].open
        /\ \/ \E s \in tx[q].sub : s.assignment_id = assignmentId
           \/ \E r \in studentAssignments :
                r.assignment_id = assignmentId /\ r.id \in tx[q].upd

(***************************************************************************)
(* Requests, locals and responses.                                         *)
(***************************************************************************)
NoReq ==
    [op |-> "none", username |-> "ghost", id |-> NoId, title |-> NoTitle,
     description |-> NoText, dueDate |-> NoDate, publishedAt |-> NoDate,
     file |-> FALSE, studentIds |-> << >>,
     publishedAtFilter |-> NoFilter, statusFilter |-> NoFilter]

\* An Error object: its status field and its message.
Error(status, message) == [status |-> status, message |-> message]

NoError == Error(NoStatus, "")

\* The handler's locals: user.id, the uploaded fileKey, the transaction's
\* client, the row getStudentAssignment returned, savedAssignment.id,
\* existingAssignment.s3Url / updateData.fileUrl, the row to return and the
\* error the catch block holds.
NoLoc == [userId |-> NoId, key |-> NoKey, client |-> FALSE,
          studentAssignment |-> {}, newId |-> NoId, s3Url |-> NoUrl,
          body |-> {}, error |-> NoError]

NoRes == [status |-> NoStatus, thrown |-> FALSE, error |-> NoError, body |-> {}]

Snapshot ==
    [assignments |-> assignments, studentAssignments |-> studentAssignments,
     submissions |-> submissions, blobs |-> blobs]

\* res.status(error.status || 500)
ErrorStatusOr500(error) ==
    IF error.status = NoStatus THEN InternalError ELSE error.status

\* AssignmentsController.createAssignment answers every error with 500.
CreateErrorStatus(error) == InternalError

\* The scheduler's job before its first run.
NoScan == [pc |-> "idle", tick |-> 0, now |-> 0, rows |-> {}, todo |-> {},
           failed |-> {}]

Init ==
    /\ assignments = {}
    /\ studentAssignments = {}
    /\ submissions = {}
    /\ seq = [asg |-> 1, sa |-> 1, sub |-> 1]
    /\ blobs = {}
    /\ nextKey = 1
    /\ pc = [p \in Procs |-> "idle"]
    /\ req = [p \in Procs |-> NoReq]
    /\ loc = [p \in Procs |-> NoLoc]
    /\ tx = [p \in Procs |-> NoTx]
    /\ res = [p \in Procs |-> NoRes]
    /\ calls = 0
    /\ before = [p \in Procs |-> Snapshot]
    /\ outbox = {}
    /\ scan = NoScan
    /\ log = {}
    /\ pool = 0

\* A request arrives at a handler that is free.
Accept(p, r) ==
    /\ pc[p] = "idle"
    /\ calls < MaxCalls
    /\ calls' = calls + 1
    /\ req' = [req EXCEPT ![p] = r]
    /\ before' = [before EXCEPT ![p] = Snapshot]

\* The handler moves on to its next await.
Goto(p, label, l) ==
    /\ pc' = [pc EXCEPT ![p] = label]
    /\ loc' = [loc EXCEPT ![p] = l]
    /\ res' = [res EXCEPT ![p] = NoRes]

\* The controller's try block ends: res.status(status).json(body).
Succeed(p, status, body) ==
    /\ pc' = [pc EXCEPT ![p] = "idle"]
    /\ loc' = loc
    /\ res' = [res EXCEPT ![p] = [status |-> status, thrown |-> FALSE,
                                  error |-> NoError, body |-> body]]

\* The controller's catch block: error reached it and it answered with
\* status and {message: error.message}.
Fail(p, status, error, l) ==
    /\ pc' = [pc EXCEPT ![p] = "idle"]
    /\ loc' = [loc EXCEPT ![p] = l]
    /\ res' = [res EXCEPT ![p] = [status |-> status, thrown |-> TRUE,
                                  error |-> error, body |-> {}]]

(***************************************************************************)
(* SubmissionsDAO.                                                         *)
(***************************************************************************)
\* Variant: the lookup leaves out the student.
getStudentAssignment_AnyStudent(assignmentId, studentId) ==
    { r \in studentAssignments : r.assignment_id = assignmentId }

\* SELECT * FROM tblt_student_assignments WHERE assignment_id = $1 AND
\* student_id = $2, sent to the pool.
getStudentAssignment(assignmentId, studentId) ==
    { r \in studentAssignments :
        r.assignment_id = assignmentId /\ r.student_id = studentId }

\* The row INSERT INTO tblm_submissions ... RETURNING * writes.
SubmissionRow(id, assignmentId, studentId, fileUrl) ==
    [id |-> id, assignment_id |-> assignmentId, student_id |-> studentId,
     s3_url |-> fileUrl]

\* The error INSERT INTO tblm_submissions raises: the key is taken, or the
\* assignment is gone (NoError when the row is inserted).
saveSubmissionError(t, assignmentId, studentId) ==
    IF SubmissionUniqueViolation(submissions \cup t.sub, assignmentId, studentId)
    THEN Error(NoStatus, "duplicate key value violates unique constraint")
    ELSE IF ~AssignmentExists(t, assignmentId)
    THEN Error(NoStatus, "violates foreign key constraint")
    ELSE NoError

\* saveSubmission(assignmentId, studentId, fileUrl, client)
saveSubmission(t, id, assignmentId, studentId, fileUrl) ==
    [t EXCEPT !.sub = @ \cup {SubmissionRow(id, assignmentId, studentId, fileUrl)}]

\* Variant: the status UPDATE leaves the student out of its WHERE clause.
updateStudentAssignmentStatus_WholeAssignment(t, assignmentId, studentId) ==
    [t EXCEPT !.upd = @ \cup
        { r.id : r \in { x \in VisibleStudentAssignments(t) :
                           x.assignment_id = assignmentId } }]

\* Variant: the status UPDATE matches no row.
updateStudentAssignmentStatus_NoRow(t, assignmentId, studentId) == t

\* updateStudentAssignmentStatus(assignmentId, studentId, client):
\* UPDATE ... SET status_id = SUBMITTED WHERE assignment_id = $1 AND student_id = $2
updateStudentAssignmentStatus(t, assignmentId, studentId) ==
    [t EXCEPT !.upd = @ \cup
        { r.id : r \in { x \in VisibleStudentAssignments(t) :
                           x.assignment_id = assignmentId /\ x.student_id = studentId } }]

(***************************************************************************)
(* SubmissionsController.addSubmission -> SubmissionsService.addSubmission *)
(***************************************************************************)
\* The controller builds submissionData; the service resolves the user and
\* checks the role.
addSubmission_start(p, r) ==
    LET found == getUserByUsername(r.username)
    IN  /\ r.op = "addSubmission"
        /\ Accept(p, r)
        /\ IF found = {}
           THEN Fail(p, ErrorStatusOr500(Error(NoStatus, "User not found")),
                     Error(NoStatus, "User not found"), NoLoc)
           ELSE LET user == CHOOSE u \in found : TRUE
                IN  IF user.role_id # STUDENT
                    THEN Fail(p, ErrorStatusOr500(Error(Forbidden, "Only students can submit assignments")),
                              Error(Forbidden, "Only students can submit assignments"),
                              [NoLoc EXCEPT !.userId = user.id])
                    ELSE Goto(p, "s_check", [NoLoc EXCEPT !.userId = user.id])
        /\ UNCHANGED <<dbVars, seq, storeVars, tx, outbox, scanVars, pool>>

\* const studentAssignment = await getStudentAssignment(assignmentId, user.id)
addSubmission_check(p) ==
    /\ pc[p] = "s_check"
    /\ LET studentAssignment == getStudentAssignment(req[p].id, loc[p].userId)
       IN  IF studentAssignment = {}
           THEN Fail(p, ErrorStatusOr500(Error(Forbidden, "Student has not been assigned this assignment")),
                     Error(Forbidden, "Student has not been assigned this assignment"),
                     loc[p])
           ELSE Goto(p, "s_upload",
                     [loc[p] EXCEPT !.studentAssignment = studentAssignment])
    /\ UNCHANGED <<dbVars, seq, storeVars, tx, req, calls, before, outbox, scanVars, pool>>

\* S3.send(new PutObjectCommand(params)) under a fresh key.
addSubmission_upload(p) ==
    /\ pc[p] = "s_upload"
    /\ blobs' = blobs \cup {nextKey}
    /\ nextKey' = nextKey + 1
    /\ Goto(p, "s_begin", [loc[p] EXCEPT !.key = nextKey])
    /\ UNCHANGED <<dbVars, seq, tx, req, calls, before, outbox, scanVars, pool>>

\* const client = await beginTransaction()
addSubmission_begin(p) ==
    /\ pc[p] = "s_begin"
    /\ pool' = pool_connect
    /\ tx' = [tx EXCEPT ![p] = beginTransaction]
    /\ Goto(p, "s_insert", [loc[p] EXCEPT !.client = TRUE])
    /\ UNCHANGED <<dbVars, seq, storeVars, req, calls, before, outbox, scanVars>>

\* SubmissionsDAO.saveSubmission(assignmentId, user.id, fileUrl, client)
addSubmission_insert(p) ==
    /\ pc[p] = "s_insert"
    /\ ~InsertWaits(p, req[p].id, loc[p].userId)
    /\ seq' = [seq EXCEPT !.sub = @ + 1]
    /\ LET error == saveSubmissionError(tx[p], req[p].id, loc[p].userId)
       IN  IF error # NoError
           THEN /\ Goto(p, "s_rollback", [loc[p] EXCEPT !.error = error])
                /\ UNCHANGED tx
           ELSE /\ tx' = [tx EXCEPT ![p] =
                            saveSubmission(tx[p], seq.sub, req[p].id, loc[p].userId,
                                           S3Url(loc[p].key))]
                /\ Goto(p, "s_update",
                        [loc[p] EXCEPT !.body =
                            {SubmissionRow(seq.sub, req[p].id, loc[p].userId,
                                           S3Url(loc[p].key))}])
    /\ UNCHANGED <<dbVars, storeVars, req, calls, before, outbox, scanVars, pool>>

\* SubmissionsDAO.updateStudentAssignmentStatus(assignmentId, user.id, client)
addSubmission_update(p) ==
    /\ pc[p] = "s_update"
    /\ tx' = [tx EXCEPT ![p] =
                updateStudentAssignmentStatus(tx[p], req[p].id, loc[p].userId)]
    /\ Goto(p, "s_commit", loc[p])
    /\ UNCHANGED <<dbVars, seq, storeVars, req, calls, before, outbox, scanVars, pool>>

\* await commitTransaction(client); return submission
addSubmission_commit(p) ==
    /\ pc[p] = "s_commit"
    /\ assignments' = CommitAssignments(tx[p])
    /\ studentAssignments' = CommitStudentAssignments(tx[p])
    /\ submissions' = CommitSubmissions(tx[p])
    /\ pool' = client_release
    /\ tx' = [tx EXCEPT ![p] = NoTx]
    /\ Succeed(p, Created, loc[p].body)
    /\ UNCHANGED <<seq, storeVars, req, calls, before, outbox, scanVars>>

\* Variant: the catch block also deletes the blob the call uploaded.
addSubmission_rollback_DeletesBlob(p) ==
    /\ pc[p] = "s_rollback"
    /\ assignments' = RollbackAssignments(tx[p])
    /\ studentAssignments' = RollbackStudentAssignments(tx[p])
    /\ submissions' = RollbackSubmissions(tx[p])
    /\ pool' = client_release
    /\ tx' = [tx EXCEPT ![p] = NoTx]
    /\ blobs' = blobs \ {loc[p].key}
    /\ Fail(p, ErrorStatusOr500(loc[p].error), loc[p].error, loc[p])
    /\ UNCHANGED <<seq, nextKey, req, calls, before, outbox, scanVars>>

\* catch (error) { await rollbackTransaction(client); throw error; }
addSubmission_rollback(p) ==
    /\ pc[p] = "s_rollback"
    /\ assignments' = RollbackAssignments(tx[p])
    /\ studentAssignments' = RollbackStudentAssignments(tx[p])
    /\ submissions' = RollbackSubmissions(tx[p])
    /\ pool' = client_release
    /\ tx' = [tx EXCEPT ![p] = NoTx]
    /\ Fail(p, ErrorStatusOr500(loc[p].error), loc[p].error, loc[p])
    /\ UNCHANGED <<seq, storeVars, req, calls, before, outbox, scanVars>>

(***************************************************************************)
(* models/CreateAssignmentRequest.                                         *)
(***************************************************************************)
\* The error the constructor throws (NoError when title, dueDate and file
\* are present).
CreateAssignmentRequestError(raw) ==
    IF raw.title = NoTitle THEN Error(NoStatus, "Title is required")
    ELSE IF raw.dueDate = NoDate THEN Error(NoStatus, "Due date is required")
    ELSE IF ~raw.file THEN Error(NoStatus, "File is required")
    ELSE NoError

CreateAssignmentRequestValid(r) == CreateAssignmentRequestError(r) = NoError

\* this.description = description || null
\* this.publishedAt = publishedAt || new Date().toISOString()
CreateAssignmentRequest(r, clock) ==
    [r EXCEPT !.description = IF @ = NoText THEN "null" ELSE @,
              !.publishedAt = IF @ = NoDate THEN clock ELSE @]

(***************************************************************************)
(* AssignmentDAO.                                                          *)
(***************************************************************************)
\* Variant: the INSERT leaves s3_url out.
AssignmentRow_NoUrl(id, createdBy, r, fileUrl) ==
    [id |-> id, tutor_id |-> createdBy, title |-> r.title,
     description |-> r.description, published_at |-> r.publishedAt,
     deadline |-> r.dueDate, s3_url |-> NoUrl]

\* The row INSERT INTO tblm_assignments ... RETURNING * writes.
AssignmentRow(id, createdBy, r, fileUrl) ==
    [id |-> id, tutor_id |-> createdBy, title |-> r.title,
     description |-> r.description, published_at |-> r.publishedAt,
     deadline |-> r.dueDate, s3_url |-> fileUrl]

\* saveAssignment(assignmentData, client)
saveAssignment(t, id, createdBy, r, fileUrl) ==
    [t EXCEPT !.asg = @ \cup {AssignmentRow(id, createdBy, r, fileUrl)}]

\* Variant: the lookup ignores the id and returns the first row of the table.
getAssignmentById_AnyId(assignmentId) ==
    IF assignments = {} THEN {} ELSE { CHOOSE a \in assignments : TRUE }

\* SELECT * FROM tblm_assignments WHERE id = $1, sent to the pool.
getAssignmentById(assignmentId) == { a \in assignments : a.id = assignmentId }

\* The INSERT of the fan-out fails as a whole when a student id references no
\* user.
saveStudentAssignmentsFails(studentIds) ==
    \E i \in 1..Len(studentIds) : ~UserExists(studentIds[i])

\* Variant: the INSERT has no ON CONFLICT clause and the table no unique key:
\* one row per listed id.
saveStudentAssignments_EveryRow(t, firstId, assignmentId, studentIds) ==
    [t EXCEPT !.sa = @ \cup
        { [id |-> firstId + i - 1, assignment_id |-> assignmentId,
           student_id |-> studentIds[i], status_id |-> PENDING] :
            i \in 1..Len(studentIds) }]

\* saveStudentAssignments(assignmentId, studentIds, client): one PENDING row
\* per listed id, ON CONFLICT (assignment_id, student_id) DO NOTHING.  Every
\* proposed row draws its id from the sequence, starting at firstId.
saveStudentAssignments(t, firstId, assignmentId, studentIds) ==
    [t EXCEPT !.sa = @ \cup
        { [id |-> firstId + i - 1, assignment_id |-> assignmentId,
           student_id |-> studentIds[i], status_id |-> PENDING] :
            i \in { j \in 1..Len(studentIds) :
                      /\ ~StudentAssignmentConflict(VisibleStudentAssignments(t),
                                                    assignmentId, studentIds[j])
                      /\ \A k \in 1..(j - 1) : studentIds[k] # studentIds[j] } }]

\* The fields updateData carries (the controller copies the ones the body has).
NoFieldsProvided(r, fileUrl) ==
    /\ r.title = NoTitle
    /\ r.description = NoText
    /\ r.dueDate = NoDate
    /\ r.publishedAt = NoDate
    /\ fileUrl = NoUrl

\* Variant: every column is set from the request, present or not.
UpdatedRow_AbsentOverwritten(a, r, fileUrl) ==
    [a EXCEPT !.title = IF r.title # NoTitle THEN r.title ELSE @,
              !.description = r.description,
              !.deadline = IF r.dueDate # NoDate THEN r.dueDate ELSE @,
              !.published_at = r.publishedAt,
              !.s3_url = IF fileUrl # NoUrl THEN fileUrl ELSE @]

\* UPDATE tblm_assignments SET <provided fields> WHERE id = $n RETURNING *
UpdatedRow(a, r, fileUrl) ==
    [a EXCEPT !.title = IF r.title # NoTitle THEN r.title ELSE @,
              !.description = IF r.description # NoText THEN r.description ELSE @,
              !.deadline = IF r.dueDate # NoDate THEN r.dueDate ELSE @,
              !.published_at = IF r.publishedAt # NoDate THEN r.publishedAt ELSE @,
              !.s3_url = IF fileUrl # NoUrl THEN fileUrl ELSE @]

AssignmentDAO_updateAssignment(assignmentId, r, fileUrl) ==
    { IF a.id = assignmentId THEN UpdatedRow(a, r, fileUrl) ELSE a :
        a \in assignments }

\* DELETE FROM tblm_assignments WHERE id = $1, and what ON DELETE CASCADE
\* removes with it.
AssignmentDAO_deleteAssignment(assignmentId) ==
    { a \in assignments : a.id # assignmentId }

CascadeStudentAssignments(assignmentId) ==
    { r \in studentAssignments : r.assignment_id # assignmentId }

\* Variant: the submissions of a deleted assignment are left in place.
CascadeSubmissions_None(assignmentId) ==
    submissions

CascadeSubmissions(assignmentId) ==
    { r \in submissions : r.assignment_id # assignmentId }

(***************************************************************************)
(* AssignmentsController.createAssignment -> AssignmentService             *)
(***************************************************************************)
\* The controller builds the CreateAssignmentRequest; the service resolves the
\* user and checks the role.
createAssignment_start(p, raw) ==
    \E clock \in Times :
        LET r == IF CreateAssignmentRequestValid(raw)
                 THEN CreateAssignmentRequest(raw, clock) ELSE raw
            found == getUserByUsername(raw.username)
        IN  /\ raw.op = "createAssignment"
            /\ Accept(p, r)
            /\ IF ~CreateAssignmentRequestValid(raw)
               THEN Fail(p, CreateErrorStatus(CreateAssignmentRequestError(raw)),
                         CreateAssignmentRequestError(raw), NoLoc)
               ELSE IF found = {}
               THEN Fail(p, CreateErrorStatus(Error(NoStatus, "User not found")),
                         Error(NoStatus, "User not found"), NoLoc)
               ELSE LET user == CHOOSE u \in found : TRUE
                    IN  IF user.role_id # TUTOR
                        THEN Fail(p, CreateErrorStatus(Error(Forbidden, "Only TUTORS can create assignments")),
                                  Error(Forbidden, "Only TUTORS can create assignments"),
                                  [NoLoc EXCEPT !.userId = user.id])
                        ELSE Goto(p, "c_upload", [NoLoc EXCEPT !.userId = user.id])
            /\ UNCHANGED <<dbVars, seq, storeVars, tx, outbox, scanVars, pool>>

\* S3.send(new PutObjectCommand(params)) under a fresh key.
createAssignment_upload(p) ==
    /\ pc[p] = "c_upload"
    /\ blobs' = blobs \cup {nextKey}
    /\ nextKey' = nextKey + 1
    /\ Goto(p, "c_begin", [loc[p] EXCEPT !.key = nextKey])
    /\ UNCHANGED <<dbVars, seq, tx, req, calls, before, outbox, scanVars, pool>>

\* const client = await beginTransaction()
createAssignment_begin(p) ==
    /\ pc[p] = "c_begin"
    /\ pool' = pool_connect
    /\ tx' = [tx EXCEPT ![p] = beginTransaction]
    /\ Goto(p, "c_save", [loc[p] EXCEPT !.client = TRUE])
    /\ UNCHANGED <<dbVars, seq, storeVars, req, calls, before, outbox, scanVars>>

\* AssignmentDAO.saveAssignment({...assignmentData, fileUrl, createdBy}, client)
createAssignment_save(p) ==
    /\ pc[p] = "c_save"
    /\ seq' = [seq EXCEPT !.asg = @ + 1]
    /\ tx' = [tx EXCEPT ![p] =
                saveAssignment(tx[p], seq.asg, loc[p].userId, req[p],
                               S3Url(loc[p].key))]
    /\ Goto(p, IF Len(req[p].studentIds) > 0 THEN "c_fanout" ELSE "c_commit",
            [loc[p] EXCEPT !.newId = seq.asg,
                           !.body = {AssignmentRow(seq.asg, loc[p].userId, req[p],
                                                   S3Url(loc[p].key))}])
    /\ UNCHANGED <<dbVars, storeVars, req, calls, before, outbox, scanVars, pool>>

\* AssignmentDAO.saveStudentAssignments(savedAssignment.id, studentIds, client)
createAssignment_fanout(p) ==
    /\ pc[p] = "c_fanout"
    /\ seq' = [seq EXCEPT !.sa = @ + Len(req[p].studentIds)]
    /\ IF saveStudentAssignmentsFails(req[p].studentIds)
       THEN /\ Goto(p, "c_rollback",
                    [loc[p] EXCEPT !.error =
                        Error(NoStatus, "violates foreign key constraint")])
            /\ UNCHANGED tx
       ELSE /\ tx' = [tx EXCEPT ![p] =
                        saveStudentAssignments(tx[p], seq.sa, loc[p].newId,
                                               req[p].studentIds)]
            /\ Goto(p, "c_commit", loc[p])
    /\ UNCHANGED <<dbVars, storeVars, req, calls, before, outbox, scanVars, pool>>

\* await commitTransaction(client); return savedAssignment
createAssignment_commit(p) ==
    /\ pc[p] = "c_commit"
    /\ assignments' = CommitAssignments(tx[p])
    /\ studentAssignments' = CommitStudentAssignments(tx[p])
    /\ submissions' = CommitSubmissions(tx[p])
    /\ pool' = client_release
    /\ tx' = [tx EXCEPT ![p] = NoTx]
    /\ Succeed(p, Created, loc[p].body)
    /\ UNCHANGED <<seq, storeVars, req, calls, before, outbox, scanVars>>

\* catch (error) { await rollbackTransaction(client); throw error; }
createAssignment_rollback(p) ==
    /\ pc[p] = "c_rollback"
    /\ assignments' = RollbackAssignments(tx[p])
    /\ studentAssignments' = RollbackStudentAssignments(tx[p])
    /\ submissions' = RollbackSubmissions(tx[p])
    /\ pool' = client_release
    /\ tx' = [tx EXCEPT ![p] = NoTx]
    /\ Fail(p, CreateErrorStatus(loc[p].error), loc[p].error, loc[p])
    /\ UNCHANGED <<seq, storeVars, req, calls, before, outbox, scanVars>>

(***************************************************************************)
(* AssignmentsController.updateAssignment -> AssignmentService             *)
(***************************************************************************)
\* Variant: the ownership check lets every tutor through.
NotCreator_Never(existingAssignment, userId) == FALSE

\* existingAssignment.tutorId !== user.id
NotCreator(existingAssignment, userId) == existingAssignment.tutor_id # userId

\* The controller copies the fields the body has; the service resolves the
\* user and checks the role.  PATCH /:id has no upload middleware: req.file is
\* never set on this route.
updateAssignment_start(p, r) ==
    LET found == getUserByUsername(r.username)
    IN  /\ r.op = "updateAssignment"
        /\ Accept(p, r)
        /\ IF found = {}
           THEN Fail(p, ErrorStatusOr500(Error(NoStatus, "User not found")),
                     Error(NoStatus, "User not found"), NoLoc)
           ELSE LET user == CHOOSE u \in found : TRUE
                IN  IF user.role_id # TUTOR
                    THEN Fail(p, ErrorStatusOr500(Error(Forbidden, "Only TUTORS can update assignments")),
                              Error(Forbidden, "Only TUTORS can update assignments"),
                              [NoLoc EXCEPT !.userId = user.id])
                    ELSE Goto(p, "u_fetch", [NoLoc EXCEPT !.userId = user.id])
        /\ UNCHANGED <<dbVars, seq, storeVars, tx, outbox, scanVars, pool>>

\* getAssignmentById, the ownership check and, with no file to upload, the
\* DAO's check that some field is provided.
updateAssignment_fetch(p) ==
    /\ pc[p] = "u_fetch"
    /\ LET existing == getAssignmentById(req[p].id)
       IN  IF existing = {}
           THEN Fail(p, ErrorStatusOr500(Error(NotFound, "Assignment not found")),
                     Error(NotFound, "Assignment not found"), loc[p])
           ELSE IF \E a \in existing : NotCreator(a, loc[p].userId)
           THEN Fail(p, ErrorStatusOr500(Error(Forbidden, "You can only update assignments you created")),
                     Error(Forbidden, "You can only update assignments you created"),
                     loc[p])
           ELSE IF req[p].file
           THEN Goto(p, "u_upload", loc[p])
           ELSE IF NoFieldsProvided(req[p], NoUrl)
           THEN Fail(p, ErrorStatusOr500(Error(NoStatus, "No fields provided to update")),
                     Error(NoStatus, "No fields provided to update"), loc[p])
           ELSE Goto(p, "u_update", loc[p])
    /\ UNCHANGED <<dbVars, seq, storeVars, tx, req, calls, before, outbox, scanVars, pool>>

\* Variant: the new file takes the place of the old blob.
updateAssignment_upload_ReplacesBlob(p) ==
    /\ pc[p] = "u_upload"
    /\ blobs' = (blobs \ { KeyOfUrl(a.s3_url) : a \in getAssignmentById(req[p].id) })
                    \cup {nextKey}
    /\ nextKey' = nextKey + 1
    /\ Goto(p, "u_update", [loc[p] EXCEPT !.key = nextKey,
                                          !.s3Url = S3Url(nextKey)])
    /\ UNCHANGED <<dbVars, seq, tx, req, calls, before, outbox, scanVars, pool>>

\* S3.send(new PutObjectCommand(params)); updateData.fileUrl = <new URL>
updateAssignment_upload(p) ==
    /\ pc[p] = "u_upload"
    /\ blobs' = blobs \cup {nextKey}
    /\ nextKey' = nextKey + 1
    /\ Goto(p, "u_update", [loc[p] EXCEPT !.key = nextKey,
                                          !.s3Url = S3Url(nextKey)])
    /\ UNCHANGED <<dbVars, seq, tx, req, calls, before, outbox, scanVars, pool>>

\* AssignmentDAO.updateAssignment(assignmentId, updateData): the UPDATE, sent
\* to the pool, and the row it returns (none when the row is gone).
updateAssignment_update(p) ==
    /\ pc[p] = "u_update"
    /\ assignments' = AssignmentDAO_updateAssignment(req[p].id, req[p], loc[p].s3Url)
    /\ Succeed(p, Ok, { a \in assignments' : a.id = req[p].id })
    /\ UNCHANGED <<studentAssignments, submissions, seq, storeVars, tx, req,
                   calls, before, outbox, scanVars, pool>>

(***************************************************************************)
(* AssignmentsController.deleteAssignment -> AssignmentService             *)
(***************************************************************************)
deleteAssignment_start(p, r) ==
    LET found == getUserByUsername(r.username)
    IN  /\ r.op = "deleteAssignment"
        /\ Accept(p, r)
        /\ IF found = {}
           THEN Fail(p, ErrorStatusOr500(Error(NoStatus, "User not found")),
                     Error(NoStatus, "User not found"), NoLoc)
           ELSE LET user == CHOOSE u \in found : TRUE
                IN  IF user.role_id # TUTOR
                    THEN Fail(p, ErrorStatusOr500(Error(Forbidden, "Only TUTORS can delete assignments")),
                              Error(Forbidden, "Only TUTORS can delete assignments"),
                              [NoLoc EXCEPT !.userId = user.id])
                    ELSE Goto(p, "d_fetch", [NoLoc EXCEPT !.userId = user.id])
        /\ UNCHANGED <<dbVars, seq, storeVars, tx, outbox, scanVars, pool>>

\* getAssignmentById and the ownership check.
deleteAssignment_fetch(p) ==
    /\ pc[p] = "d_fetch"
    /\ LET existing == getAssignmentById(req[p].id)
       IN  IF existing = {}
           THEN Fail(p, ErrorStatusOr500(Error(NotFound, "Assignment not found")),
                     Error(NotFound, "Assignment not found"), loc[p])
           ELSE LET a == CHOOSE x \in existing : TRUE
                IN  IF NotCreator(a, loc[p].userId)
                    THEN Fail(p, ErrorStatusOr500(Error(Forbidden, "You can only delete assignments you created")),
                              Error(Forbidden, "You can only delete assignments you created"),
                              loc[p])
                    ELSE Goto(p, IF a.s3_url # NoUrl THEN "d_s3" ELSE "d_delete",
                              [loc[p] EXCEPT !.s3Url = a.s3_url])
    /\ UNCHANGED <<dbVars, seq, storeVars, tx, req, calls, before, outbox, scanVars, pool>>

\* S3.send(new DeleteObjectCommand({Key: s3Url.split('/').pop()}))
deleteAssignment_s3(p) ==
    /\ pc[p] = "d_s3"
    /\ blobs' = blobs \ {KeyOfUrl(loc[p].s3Url)}
    /\ Goto(p, "d_delete", loc[p])
    /\ UNCHANGED <<dbVars, seq, nextKey, tx, req, calls, before, outbox, scanVars, pool>>

\* AssignmentDAO.deleteAssignment(assignmentId)
deleteAssignment_delete(p) ==
    /\ pc[p] = "d_delete"
    /\ ~DeleteWaits(req[p].id)
    /\ assignments' = AssignmentDAO_deleteAssignment(req[p].id)
    /\ studentAssignments' = CascadeStudentAssignments(req[p].id)
    /\ submissions' = CascadeSubmissions(req[p].id)
    /\ Succeed(p, Ok, {})
    /\ UNCHANGED <<seq, storeVars, tx, req, calls, before, outbox, scanVars, pool>>

(***************************************************************************)
(* Queries: AssignmentDAO and SubmissionsDAO, sent to the pool.            *)
(***************************************************************************)
\* Variant: SCHEDULED also takes the assignments published right now.
PublishedAtMatches_Inclusive(a, publishedAt, now) ==
    /\ publishedAt = "SCHEDULED" => a.published_at >= now
    /\ publishedAt = "ONGOING" => a.published_at <= now

\* AND published_at > NOW() / AND published_at <= NOW()
PublishedAtMatches(a, publishedAt, now) ==
    /\ publishedAt = "SCHEDULED" => a.published_at > now
    /\ publishedAt = "ONGOING" => a.published_at <= now

\* Variant: OVERDUE looks at the deadline only.
StatusMatches_DeadlineOnly(a, sa, status, now) ==
    /\ status = "PENDING" => sa.status_id = PENDING
    /\ status = "SUBMITTED" => sa.status_id = SUBMITTED
    /\ status = "OVERDUE" => a.deadline < now

\* AND sa.status_id = $2 [AND a.deadline < NOW()]
StatusMatches(a, sa, status, now) ==
    /\ status = "PENDING" => sa.status_id = PENDING
    /\ status = "SUBMITTED" => sa.status_id = SUBMITTED
    /\ status = "OVERDUE" => sa.status_id = PENDING /\ a.deadline < now

\* Variant: the tutor's listing is not restricted to the tutor.
getTutorAssignments_AnyTutor(tutorId, publishedAt, now) ==
    { a \in assignments : PublishedAtMatches(a, publishedAt, now) }

\* SELECT * FROM tblm_assignments WHERE tutor_id = $1 ...
getTutorAssignments(tutorId, publishedAt, now) ==
    { a \in assignments :
        a.tutor_id = tutorId /\ PublishedAtMatches(a, publishedAt, now) }

\* SELECT a.*, sa.status_id
JoinedRow(a, sa) ==
    [id |-> a.id, tutor_id |-> a.tutor_id, title |-> a.title,
     description |-> a.description, published_at |-> a.published_at,
     deadline |-> a.deadline, s3_url |-> a.s3_url, status_id |-> sa.status_id]

\* ... FROM tblm_assignments a JOIN tblt_student_assignments sa
\*     ON a.id = sa.assignment_id WHERE sa.student_id = $1 ...
getStudentAssignments(studentId, publishedAt, status, now) ==
    { JoinedRow(x[1], x[2]) :
        x \in { y \in assignments \X studentAssignments :
                  /\ y[1].id = y[2].assignment_id
                  /\ y[2].student_id = studentId
                  /\ PublishedAtMatches(y[1], publishedAt, now)
                  /\ StatusMatches(y[1], y[2], status, now) } }

\* SELECT s.*, u.username FROM tblm_submissions s JOIN tblm_users u
\*     ON s.student_id = u.id WHERE s.assignment_id = $1
getSubmissionsForTutor(assignmentId) ==
    { [id |-> x[1].id, assignment_id |-> x[1].assignment_id,
       student_id |-> x[1].student_id, s3_url |-> x[1].s3_url,
       username |-> x[2].username] :
        x \in { y \in submissions \X Users :
                  y[1].student_id = y[2].id /\ y[1].assignment_id = assignmentId } }

\* Variant: the student's query leaves out the student_id condition.
getSubmissionForStudent_AnyStudent(assignmentId, studentId) ==
    { r \in submissions : r.assignment_id = assignmentId }

\* SELECT * FROM tblm_submissions WHERE assignment_id = $1 AND student_id = $2
\* (the empty set stands for null)
getSubmissionForStudent(assignmentId, studentId) ==
    { r \in submissions :
        r.assignment_id = assignmentId /\ r.student_id = studentId }

\* Variant: only a deadline exactly one hour away is taken.
DueWithinTheHour_OnTheHour(deadline, now) == deadline = now + 120

\* Variant: any deadline within the coming hour is taken.
DueWithinTheHour_WholeHour(deadline, now) ==
    deadline >= now /\ deadline <= now + 120

\* NotificationService.fetchUpcomingAssignments: a.deadline BETWEEN now + 59
\* minutes AND now + 1 hour, both ends included (118 and 120 half minutes)
DueWithinTheHour(deadline, now) == deadline >= now + 118 /\ deadline <= now + 120

\* SELECT sa.assignment_id, a.title, a.deadline, u.email
\* FROM tblt_student_assignments sa JOIN tblm_assignments a JOIN tblm_users u
\* WHERE <deadline within the hour> AND sa.status_id = PENDING
fetchUpcomingAssignments(now) ==
    { [assignment_id |-> x[1].assignment_id, assignment_title |-> x[2].title,
       deadline |-> x[2].deadline, student_email |-> x[3].email] :
        x \in { y \in studentAssignments \X assignments \X Users :
                  /\ y[1].assignment_id = y[2].id
                  /\ y[1].student_id = y[3].id
                  /\ DueWithinTheHour(y[2].deadline, now)
                  /\ y[1].status_id = PENDING } }

\* The mail sendNotifications builds for a row of the scan.
ReminderMail(n) ==
    [to |-> n.student_email, assignment_title |-> n.assignment_title,
     deadline |-> n.deadline]

\* notifyUpcomingAssignments as one step, for the specification that follows
\* the requests: the scan, then one sendMail per row; a send that fails is
\* logged and the loop goes on, so any subset of the mails is accepted.
notifyUpcomingAssignments ==
    /\ \A p \in Procs : pc[p] = "idle"
    /\ calls < MaxCalls
    /\ calls' = calls + 1
    /\ \E now \in Times :
        \E accepted \in SUBSET fetchUpcomingAssignments(now) :
            outbox' = outbox \cup { ReminderMail(n) : n \in accepted }
    /\ UNCHANGED <<dbVars, seq, storeVars, pc, req, loc, tx, res, before,
                   scanVars, pool>>

(***************************************************************************)
(* NotificationScheduler and NotificationService, step by step.            *)
(***************************************************************************)
\* cron.schedule('* * * * *', ...): the job runs once a minute (two half
\* minutes), the first time at any moment after the server started.
TickPeriod == 2
FirstTicks == {2, 3}

\* The scheduler fires: notifyUpcomingAssignments is entered; now() is the
\* time of this run.
scheduleNotificationJob ==
    /\ scan.pc = "idle"
    /\ \A p \in Procs : pc[p] = "idle"
    /\ scan.tick < MaxTicks
    /\ \E now \in (IF scan.tick = 0 THEN FirstTicks
                   ELSE {scan.now + TickPeriod}) :
        scan' = [pc |-> "fetch", tick |-> scan.tick + 1, now |-> now,
                 rows |-> {}, todo |-> {}, failed |-> scan.failed]
    /\ UNCHANGED <<dbVars, seq, storeVars, pc, req, loc, tx, res, calls, before,
                   outbox, log, pool>>

\* const assignments = await fetchUpcomingAssignments(); with no row the job
\* logs "No upcoming assignments" and ends.
notifyUpcomingAssignments_fetch ==
    /\ scan.pc = "fetch"
    /\ LET rows == fetchUpcomingAssignments(scan.now)
       IN  scan' = [scan EXCEPT !.rows = rows, !.todo = rows,
                                !.pc = IF rows = {} THEN "idle" ELSE "send"]
    /\ UNCHANGED <<dbVars, seq, storeVars, pc, req, loc, tx, res, calls, before,
                   outbox, log, pool>>

\* pool.query rejects: notifyUpcomingAssignments catches and logs the error,
\* and the job ends (scan.failed keeps the runs that ended this way).
notifyUpcomingAssignments_catch ==
    /\ scan.pc = "fetch"
    /\ scan' = [scan EXCEPT !.pc = "idle", !.failed = @ \cup {scan.tick}]
    /\ UNCHANGED <<dbVars, seq, storeVars, pc, req, loc, tx, res, calls, before,
                   outbox, log, pool>>

\* The record of one transporter.sendMail call: the run it belongs to, the
\* row and the mail it was made for, how it ended, and how many calls this run
\* had made for the same row before it.
SendMailCall(n, delivered) ==
    [tick |-> scan.tick, now |-> scan.now, assignment_id |-> n.assignment_id,
     mail |-> ReminderMail(n), delivered |-> delivered,
     attempt |-> 1 + Cardinality({ c \in log :
                                     /\ c.tick = scan.tick
                                     /\ c.assignment_id = n.assignment_id
                                     /\ c.mail = ReminderMail(n) })]

\* The rows come in the order the database returns them: that of the rows of
\* tblt_student_assignments, which for rows never updated is the order of
\* their insertion.
RowRank(n) ==
    CHOOSE id \in 1..seq.sa :
        \E sa \in studentAssignments : \E u \in Users :
            /\ sa.id = id
            /\ sa.assignment_id = n.assignment_id
            /\ u.id = sa.student_id
            /\ u.email = n.student_email

NextRow(todo) ==
    CHOOSE n \in todo : \A m \in todo : RowRank(n) <= RowRank(m)

\* Variant: a rejected sendMail ends the loop.
sendNotifications_AbortOnFailure ==
    /\ scan.pc = "send"
    /\ \E n \in {NextRow(scan.todo)} : \E delivered \in BOOLEAN :
        /\ log' = log \cup { SendMailCall(n, delivered) }
        /\ outbox' = IF delivered THEN outbox \cup {ReminderMail(n)} ELSE outbox
        /\ scan' = [scan EXCEPT !.todo = @ \ {n},
                                !.pc = IF scan.todo = {n} \/ ~delivered
                                       THEN "idle" ELSE "send"]
    /\ UNCHANGED <<dbVars, seq, storeVars, pc, req, loc, tx, res, calls, before,
                   pool>>

\* One turn of the loop of sendNotifications: transporter.sendMail for the
\* next row, accepted or rejected; a rejection is caught and logged and the
\* loop goes on.
sendNotifications ==
    /\ scan.pc = "send"
    /\ \E n \in {NextRow(scan.todo)} : \E delivered \in BOOLEAN :
        /\ log' = log \cup { SendMailCall(n, delivered) }
        /\ outbox' = IF delivered THEN outbox \cup {ReminderMail(n)} ELSE outbox
        /\ scan' = [scan EXCEPT !.todo = @ \ {n},
                                !.pc = IF scan.todo = {n} THEN "idle" ELSE "send"]
    /\ UNCHANGED <<dbVars, seq, storeVars, pc, req, loc, tx, res, calls, before,
                   pool>>

(***************************************************************************)
(* AssignmentsController.getAssignments -> AssignmentService               *)
(***************************************************************************)
getAssignments_start(p, r) ==
    LET found == getUserByUsername(r.username)
    IN  /\ r.op = "getAssignments"
        /\ Accept(p, r)
        /\ IF found = {}
           THEN Fail(p, ErrorStatusOr500(Error(NoStatus, "User not found")),
                     Error(NoStatus, "User not found"), NoLoc)
           ELSE LET user == CHOOSE u \in found : TRUE
                IN  IF user.role_id \in {TUTOR, STUDENT}
                    THEN Goto(p, "l_query", [NoLoc EXCEPT !.userId = user.id])
                    ELSE Fail(p, ErrorStatusOr500(Error(Forbidden, "Invalid role")),
                              Error(Forbidden, "Invalid role"),
                              [NoLoc EXCEPT !.userId = user.id])
        /\ UNCHANGED <<dbVars, seq, storeVars, tx, outbox, scanVars, pool>>

\* getTutorAssignments(user.id, filters) or getStudentAssignments(user.id, filters)
getAssignments_query(p) ==
    /\ pc[p] = "l_query"
    /\ \E now \in ListTimes :
        LET user == CHOOSE u \in Users : u.id = loc[p].userId
        IN  Succeed(p, Ok,
                    IF user.role_id = TUTOR
                    THEN getTutorAssignments(user.id, req[p].publishedAtFilter, now)
                    ELSE getStudentAssignments(user.id, req[p].publishedAtFilter,
                                               req[p].statusFilter, now))
    /\ UNCHANGED <<dbVars, seq, storeVars, tx, req, calls, before, outbox, scanVars, pool>>

(***************************************************************************)
(* SubmissionsController.getAssignmentDetails -> SubmissionsService        *)
(***************************************************************************)
getAssignmentDetails_start(p, r) ==
    LET found == getUserByUsername(r.username)
    IN  /\ r.op = "getAssignmentDetails"
        /\ Accept(p, r)
        /\ IF found = {}
           THEN Fail(p, ErrorStatusOr500(Error(NoStatus, "User not found")),
                     Error(NoStatus, "User not found"), NoLoc)
           ELSE LET user == CHOOSE u \in found : TRUE
                IN  IF user.role_id \in {TUTOR, STUDENT}
                    THEN Goto(p, "g_query", [NoLoc EXCEPT !.userId = user.id])
                    ELSE Fail(p, ErrorStatusOr500(Error(Forbidden, "Invalid role")),
                              Error(Forbidden, "Invalid role"),
                              [NoLoc EXCEPT !.userId = user.id])
        /\ UNCHANGED <<dbVars, seq, storeVars, tx, outbox, scanVars, pool>>

\* getSubmissionsForTutor(assignmentId) or getSubmissionForStudent(assignmentId, user.id)
getAssignmentDetails_query(p) ==
    /\ pc[p] = "g_query"
    /\ LET user == CHOOSE u \in Users : u.id = loc[p].userId
       IN  Succeed(p, Ok,
                   IF user.role_id = TUTOR
                   THEN getSubmissionsForTutor(req[p].id)
                   ELSE getSubmissionForStudent(req[p].id, user.id))
    /\ UNCHANGED <<dbVars, seq, storeVars, tx, req, calls, before, outbox, scanVars, pool>>

(***************************************************************************)
(* Failures of the collaborators.                                          *)
(***************************************************************************)
\* Variant: the rejected statement's error goes straight to the controller.
DatabaseError_NoRollback(p) ==
    /\ pc[p] \in {"s_insert", "s_update", "s_commit", "c_save", "c_fanout", "c_commit"}
    /\ Fail(p, InternalError, Error(NoStatus, "database error"), loc[p])
    /\ UNCHANGED <<dbVars, seq, storeVars, tx, req, calls, before, outbox, scanVars, pool>>

\* A statement of an open transaction (or its COMMIT) is rejected by the
\* database: client.query throws and the catch block rolls back.
DatabaseError(p) ==
    /\ pc[p] \in {"s_insert", "s_update", "s_commit", "c_save", "c_fanout", "c_commit"}
    /\ Goto(p, IF req[p].op = "addSubmission" THEN "s_rollback" ELSE "c_rollback",
            [loc[p] EXCEPT !.error = Error(NoStatus, "database error")])
    /\ UNCHANGED <<dbVars, seq, storeVars, tx, req, calls, before, outbox, scanVars, pool>>

\* Variant: the storage failure strikes a call whose transaction is open.
StorageError_InsideTransaction(p) ==
    /\ pc[p] \in {"s_insert", "c_save", "u_upload", "d_s3"}
    /\ Fail(p, IF req[p].op = "createAssignment"
               THEN CreateErrorStatus(Error(NoStatus, "storage error"))
               ELSE ErrorStatusOr500(Error(NoStatus, "storage error")),
            Error(NoStatus, "storage error"), loc[p])
    /\ UNCHANGED <<dbVars, seq, storeVars, tx, req, calls, before, outbox, scanVars, pool>>

\* S3.send rejects: the error reaches the controller.
StorageError(p) ==
    /\ pc[p] \in {"s_upload", "c_upload", "u_upload", "d_s3"}
    /\ Fail(p, IF req[p].op = "createAssignment"
               THEN CreateErrorStatus(Error(NoStatus, "storage error"))
               ELSE ErrorStatusOr500(Error(NoStatus, "storage error")),
            Error(NoStatus, "storage error"), loc[p])
    /\ UNCHANGED <<dbVars, seq, storeVars, tx, req, calls, before, outbox, scanVars, pool>>

\* beginTransaction rejects: pool.connect() rejects and no client has left the
\* pool, or it returned a client and client.query('BEGIN') rejects.  The call
\* is made outside the try block whose catch rolls back, so the error goes
\* straight to the controller.
beginTransaction_reject(p) ==
    /\ pc[p] \in {"s_begin", "c_begin"}
    /\ \E connected \in BOOLEAN :
        pool' = IF connected THEN pool_connect ELSE pool
    /\ Fail(p, IF req[p].op = "createAssignment"
               THEN CreateErrorStatus(Error(NoStatus, "BEGIN rejected"))
               ELSE ErrorStatusOr500(Error(NoStatus, "BEGIN rejected")),
            Error(NoStatus, "BEGIN rejected"), loc[p])
    /\ UNCHANGED <<dbVars, seq, storeVars, tx, req, calls, before, outbox, scanVars>>

\* rollbackTransaction rejects: client.query('ROLLBACK') throws (the
\* connection is gone, and with it the transaction's writes), client.release()
\* is skipped and the error of the ROLLBACK takes the place of the first one.
rollbackTransaction_reject(p) ==
    /\ pc[p] \in {"s_rollback", "c_rollback"}
    /\ assignments' = RollbackAssignments(tx[p])
    /\ studentAssignments' = RollbackStudentAssignments(tx[p])
    /\ submissions' = RollbackSubmissions(tx[p])
    /\ tx' = [tx EXCEPT ![p] = NoTx]
    /\ Fail(p, IF req[p].op = "createAssignment"
               THEN CreateErrorStatus(Error(NoStatus, "ROLLBACK rejected"))
               ELSE ErrorStatusOr500(Error(NoStatus, "ROLLBACK rejected")),
            Error(NoStatus, "ROLLBACK rejected"), loc[p])
    /\ UNCHANGED <<seq, storeVars, req, calls, before, outbox, scanVars, pool>>

(***************************************************************************)
(* The requests the model sends.                                           *)
(***************************************************************************)
CreateRequest(username, title, dueDate, file, studentIds) ==
    [NoReq EXCEPT !.op = "createAssignment", !.username = username,
                  !.title = title, !.dueDate = dueDate, !.file = file,
                  !.studentIds = studentIds]

\* Complete requests by every tutor with every student list, complete
\* requests by the other requesters, and requests that miss one field.
CreateRequests ==
    { CreateRequest(u, "hw1", 120, TRUE, l) : u \in {"t1", "t2"}, l \in StudentIdLists }
    \cup { CreateRequest(u, "hw1", 120, TRUE, <<3>>) : u \in {"s1", "ghost"} }
    \cup { CreateRequest(u, NoTitle, 120, TRUE, <<3>>) : u \in {"t1", "s1"} }
    \cup { CreateRequest(u, "hw1", NoDate, TRUE, <<3>>) : u \in {"t1", "s1"} }
    \cup { CreateRequest(u, "hw1", 120, FALSE, <<3>>) : u \in {"t1", "s1"} }
    \cup { [CreateRequest("t1", "hw3", 120, TRUE, <<3, 4>>) EXCEPT !.publishedAt = 5] }

UpdateRequest(username, id, title, dueDate) ==
    [NoReq EXCEPT !.op = "updateAssignment", !.username = username, !.id = id,
                  !.title = title, !.dueDate = dueDate]

\* Every tutor on every id with a title, a due date or nothing to change, and
\* the other requesters.
UpdateRequests ==
    { UpdateRequest(u, i, f[1], f[2]) :
        u \in {"t1", "t2"}, i \in AssignmentIds,
        f \in { <<"hw2", NoDate>>, <<NoTitle, 3>>, <<NoTitle, NoDate>> } }
    \cup { UpdateRequest(u, 1, "hw2", NoDate) : u \in {"s1", "s2", "ghost"} }
    \cup { [UpdateRequest(u, 1, NoTitle, NoDate) EXCEPT !.description = "text",
                                                        !.publishedAt = 5] :
                u \in {"t1", "t2"} }

DeleteRequest(username, id) ==
    [NoReq EXCEPT !.op = "deleteAssignment", !.username = username, !.id = id]

DeleteRequests ==
    { DeleteRequest(u, i) : u \in {"t1", "t2"}, i \in AssignmentIds }
    \cup { DeleteRequest(u, 1) : u \in {"s1", "s2", "ghost"} }

SubmissionRequest(username, id) ==
    [NoReq EXCEPT !.op = "addSubmission", !.username = username, !.id = id,
                  !.file = TRUE]

SubmissionRequests ==
    { SubmissionRequest(u, i) : u \in {"s1", "s2"}, i \in AssignmentIds }
    \cup { SubmissionRequest(u, 1) : u \in {"t1", "ghost"} }

ListRequest(username, publishedAt, status) ==
    [NoReq EXCEPT !.op = "getAssignments", !.username = username,
                  !.publishedAtFilter = publishedAt, !.statusFilter = status]

DetailsRequest(username, id) ==
    [NoReq EXCEPT !.op = "getAssignmentDetails", !.username = username, !.id = id]

\* The tutors and a student with each publishedAt filter, the student with
\* each status filter, and a requester that is no user.
ListRequests ==
    { ListRequest(u, f, NoFilter) :
        u \in {"t1", "t2", "s1"}, f \in {NoFilter, "SCHEDULED", "ONGOING"} }
    \cup { ListRequest("s1", NoFilter, f) : f \in {"PENDING", "SUBMITTED", "OVERDUE"} }
    \cup { ListRequest(u, NoFilter, NoFilter) : u \in {"s2", "ghost"} }

DetailsRequests == { DetailsRequest(u, 1) : u \in {"t1", "s1"} }

\* One step of the handler that serves request slot p.
SubmissionStep(p) ==
    \/ addSubmission_check(p)
    \/ addSubmission_upload(p)
    \/ addSubmission_begin(p)
    \/ addSubmission_insert(p)
    \/ addSubmission_update(p)
    \/ addSubmission_commit(p)
    \/ addSubmission_rollback(p)

CreateStep(p) ==
    \/ createAssignment_upload(p)
    \/ createAssignment_begin(p)
    \/ createAssignment_save(p)
    \/ createAssignment_fanout(p)
    \/ createAssignment_commit(p)
    \/ createAssignment_rollback(p)

\* PATCH /:id carries no file (the route has no upload middleware), so the
\* upload step of updateAssignment is never entered.
UpdateStep(p) ==
    \/ updateAssignment_fetch(p)
    \/ updateAssignment_update(p)

DeleteStep(p) ==
    \/ deleteAssignment_fetch(p)
    \/ deleteAssignment_s3(p)
    \/ deleteAssignment_delete(p)

\* Requests served one at a time.
Next ==
    \/ \E r \in CreateRequests : createAssignment_start(1, r)
    \/ \E r \in UpdateRequests : updateAssignment_start(1, r)
    \/ \E r \in DeleteRequests : deleteAssignment_start(1, r)
    \/ \E r \in SubmissionRequests : addSubmission_start(1, r)
    \/ \E r \in ListRequests : getAssignments_start(1, r)
    \/ \E r \in DetailsRequests : getAssignmentDetails_start(1, r)
    \/ getAssignments_query(1)
    \/ getAssignmentDetails_query(1)
    \/ notifyUpcomingAssignments
    \/ CreateStep(1)
    \/ UpdateStep(1)
    \/ DeleteStep(1)
    \/ SubmissionStep(1)
    \/ DatabaseError(1)
    \/ StorageError(1)

Spec == Init /\ [][Next]_vars

\* Tutor t1 creates assignments that fall due around the scheduler's first
\* runs (and one that falls due much later), the students submit, and the
\* scheduler's job runs in between.
ScanCreateRequests ==
    { CreateRequest("t1", "hw1", 122, TRUE, <<3, 4>>),
      CreateRequest("t1", "hw2", 200, TRUE, <<3>>) }

ScanSubmissionRequests ==
    { SubmissionRequest(u, 1) : u \in {"s1", "s2"} }

\* At most MaxScanCalls requests, served one at a time between the runs of
\* the scheduler's job;
\* the database and the blob store answer every statement.
ScanNext ==
    \/ /\ scan.pc = "idle"
       /\ calls < MaxScanCalls
       /\ \E r \in ScanCreateRequests : createAssignment_start(1, r)
    \/ /\ scan.pc = "idle"
       /\ calls < MaxScanCalls
       /\ \E r \in ScanSubmissionRequests : addSubmission_start(1, r)
    \/ createAssignment_upload(1)
    \/ createAssignment_begin(1)
    \/ createAssignment_save(1)
    \/ createAssignment_fanout(1)
    \/ createAssignment_commit(1)
    \/ addSubmission_check(1)
    \/ addSubmission_upload(1)
    \/ addSubmission_begin(1)
    \/ addSubmission_insert(1)
    \/ addSubmission_update(1)
    \/ addSubmission_commit(1)
    \/ scheduleNotificationJob
    \/ notifyUpcomingAssignments_fetch
    \/ notifyUpcomingAssignments_catch
    \/ sendNotifications

ScanSpec == Init /\ [][ScanNext]_vars

\* Assignments that fall due a little more than an hour after the first runs
\* of the scheduler's job, so that the runs reach their windows.
LiveCreateRequests ==
    { CreateRequest("t1", "hw1", 124, TRUE, <<3, 4>>),
      CreateRequest("t1", "hw2", 126, TRUE, <<3>>) }

LiveSubmissionRequests == { SubmissionRequest("s1", 1) }

\* The requests and the runs of the job as in ScanNext, with the query of the
\* job always answered and every mail accepted by the transporter; the INSERT
\* of a submission may be rejected.
LiveScanNext ==
    \/ /\ scan.pc = "idle"
       /\ calls < MaxScanCalls
       /\ \E r \in LiveCreateRequests : createAssignment_start(1, r)
    \/ /\ scan.pc = "idle"
       /\ calls < MaxScanCalls
       /\ \E r \in LiveSubmissionRequests : addSubmission_start(1, r)
    \/ createAssignment_upload(1)
    \/ createAssignment_begin(1)
    \/ createAssignment_save(1)
    \/ createAssignment_fanout(1)
    \/ createAssignment_commit(1)
    \/ addSubmission_check(1)
    \/ addSubmission_upload(1)
    \/ addSubmission_begin(1)
    \/ addSubmission_insert(1)
    \/ addSubmission_update(1)
    \/ addSubmission_commit(1)
    \/ addSubmission_rollback(1)
    \/ scheduleNotificationJob
    \/ notifyUpcomingAssignments_fetch
    \/ /\ sendNotifications
       /\ \A c \in log' \ log : c.delivered
    \/ /\ pc[1] = "s_insert"
       /\ DatabaseError(1)

\* A handler that has been entered runs on to its response.
HandlerRuns ==
    \/ createAssignment_upload(1)
    \/ createAssignment_begin(1)
    \/ createAssignment_save(1)
    \/ createAssignment_fanout(1)
    \/ createAssignment_commit(1)
    \/ addSubmission_check(1)
    \/ addSubmission_upload(1)
    \/ addSubmission_begin(1)
    \/ addSubmission_insert(1)
    \/ addSubmission_update(1)
    \/ addSubmission_commit(1)
    \/ addSubmission_rollback(1)

\* The cron task fires when its minute comes, and a job that has been entered
\* runs on: its query is answered and its loop takes its next turn.  Nothing
\* obliges a request to arrive.
LiveScanSpec ==
    /\ Init
    /\ [][LiveScanNext]_vars
    /\ WF_vars(HandlerRuns)
    /\ WF_vars(scheduleNotificationJob)
    /\ WF_vars(notifyUpcomingAssignments_fetch)
    /\ WF_vars(sendNotifications)

\* AssignmentService.updateAssignment called with updateData.file set, as a
\* caller of the service can (the PATCH route itself never sets it): the
\* owner with and without a new title, and another tutor.
FileUpdateRequests ==
    { [UpdateRequest(u, 1, t, NoDate) EXCEPT !.file = TRUE] :
        u \in {"t1", "t2"}, t \in {NoTitle, "hw2"} }

FileCreateRequests ==
    { CreateRequest(u, "hw1", 120, TRUE, <<3>>) : u \in {"t1", "t2"} }

\* Creates and updates that carry a file, served one at a time.
FileNext ==
    \/ \E r \in FileCreateRequests : createAssignment_start(1, r)
    \/ \E r \in FileUpdateRequests : updateAssignment_start(1, r)
    \/ CreateStep(1)
    \/ updateAssignment_fetch(1)
    \/ updateAssignment_upload(1)
    \/ updateAssignment_update(1)
    \/ DatabaseError(1)
    \/ StorageError(1)

FileSpec == Init /\ [][FileNext]_vars

\* Every operation called with a username that has no row in tblm_users
\* (a token that outlived its user), next to the calls of tutor t1 and
\* student s1 that fill the stores.
UnknownUserRequests ==
    { CreateRequest("ghost", "hw1", 120, TRUE, <<3>>),
      UpdateRequest("ghost", 1, "hw2", NoDate),
      DeleteRequest("ghost", 1),
      SubmissionRequest("ghost", 1),
      ListRequest("ghost", NoFilter, NoFilter),
      DetailsRequest("ghost", 1) }

KnownUserRequests ==
    { CreateRequest("t1", "hw1", 120, TRUE, <<3>>),
      SubmissionRequest("s1", 1) }

\* Requests served one at a time; the database and the blob store answer
\* every statement.
UnknownUserNext ==
    \/ \E r \in UnknownUserRequests \cup KnownUserRequests :
            createAssignment_start(1, r)
    \/ \E r \in UnknownUserRequests : updateAssignment_start(1, r)
    \/ \E r \in UnknownUserRequests : deleteAssignment_start(1, r)
    \/ \E r \in UnknownUserRequests \cup KnownUserRequests :
            addSubmission_start(1, r)
    \/ \E r \in UnknownUserRequests : getAssignments_start(1, r)
    \/ \E r \in UnknownUserRequests : getAssignmentDetails_start(1, r)
    \/ createAssignment_upload(1)
    \/ createAssignment_begin(1)
    \/ createAssignment_save(1)
    \/ createAssignment_fanout(1)
    \/ createAssignment_commit(1)
    \/ addSubmission_check(1)
    \/ addSubmission_upload(1)
    \/ addSubmission_begin(1)
    \/ addSubmission_insert(1)
    \/ addSubmission_update(1)
    \/ addSubmission_commit(1)

UnknownUserSpec == Init /\ [][UnknownUserNext]_vars

\* Creates (one of them with a student id that is no user) and submissions
\* against a database whose BEGIN, statements, COMMIT and ROLLBACK can each be
\* rejected, and a blob store whose uploads can be.
PoolCreateRequests ==
    { CreateRequest("t1", "hw1", 120, TRUE, l) : l \in { <<3>>, <<3, 9>> } }

PoolSubmissionRequests == { SubmissionRequest(u, 1) : u \in {"s1", "s2"} }

PoolNext ==
    \/ \E r \in PoolCreateRequests : createAssignment_start(1, r)
    \/ \E r \in PoolSubmissionRequests : addSubmission_start(1, r)
    \/ CreateStep(1)
    \/ SubmissionStep(1)
    \/ DatabaseError(1)
    \/ StorageError(1)
    \/ beginTransaction_reject(1)
    \/ rollbackTransaction_reject(1)

PoolSpec == Init /\ [][PoolNext]_vars

(***************************************************************************)
(* Concurrent requests: two handlers interleave at their awaits, and a     *)
(* reader queries while a submission is in flight.                         *)
(***************************************************************************)
ConcCreateRequests ==
    { CreateRequest("t1", "hw1", 120, TRUE, l) : l \in { <<3, 3>>, <<3, 4>> } }

ConcSubmissionRequests == { SubmissionRequest(u, 1) : u \in {"s1", "s2"} }

ConcListRequests == { ListRequest("s1", NoFilter, NoFilter) }

ConcDetailsRequests == { DetailsRequest(u, 1) : u \in {"s1", "t1"} }

\* Slot 1 serves the tutor's create calls and submissions, slot 2 submissions
\* and the readers; the two slots run at the same time.
ConcNext ==
    \/ \E r \in ConcCreateRequests : createAssignment_start(1, r)
    \/ \E p \in Procs : \E r \in ConcSubmissionRequests : addSubmission_start(p, r)
    \/ \E r \in ConcListRequests : getAssignments_start(2, r)
    \/ \E r \in ConcDetailsRequests : getAssignmentDetails_start(2, r)
    \/ getAssignments_query(2)
    \/ getAssignmentDetails_query(2)
    \/ CreateStep(1)
    \/ \E p \in Procs : SubmissionStep(p)
    \/ \E p \in Procs : DatabaseError(p)
    \/ \E p \in Procs : StorageError(p)

ConcSpec == Init /\ [][ConcNext]_vars

\* A delete in flight next to a submission or an update of the same
\* assignment: slot 1 serves tutor t1's create and delete calls, slot 2 the
\* submissions of student s1 and t1's updates, and the two slots run at the
\* same time.
RaceCreateRequests == { CreateRequest("t1", "hw1", 120, TRUE, <<3>>) }

RaceDeleteRequests == { DeleteRequest("t1", 1) }

RaceSubmissionRequests == { SubmissionRequest("s1", 1) }

RaceUpdateRequests == { UpdateRequest("t1", 1, "hw2", NoDate) }

RaceNext ==
    \/ \E r \in RaceCreateRequests : createAssignment_start(1, r)
    \/ \E r \in RaceDeleteRequests : deleteAssignment_start(1, r)
    \/ \E r \in RaceSubmissionRequests : addSubmission_start(2, r)
    \/ \E r \in RaceUpdateRequests : updateAssignment_start(2, r)
    \/ createAssignment_upload(1)
    \/ createAssignment_begin(1)
    \/ createAssignment_save(1)
    \/ createAssignment_fanout(1)
    \/ createAssignment_commit(1)
    \/ DeleteStep(1)
    \/ SubmissionStep(2)
    \/ UpdateStep(2)

RaceSpec == Init /\ [][RaceNext]_vars

(***************************************************************************)
(* Properties.  A call has ended when its slot is idle again: req holds    *)
(* the request, res the response, loc the locals the handler ended with    *)
(* and before the stores as the request found them.                        *)
(***************************************************************************)

\* C1: after any sequence of create, update, delete and submission calls,
\* successful or failed, a StudentAssignment row has status SUBMITTED exactly
\* when a Submission row exists for its (assignment, student) pair.
C1_StatusIffSubmission ==
    \A sa \in studentAssignments :
        (sa.status_id = SUBMITTED) <=>
            (\E s \in submissions :
                s.assignment_id = sa.assignment_id /\ s.student_id = sa.student_id)

\* C1 happens: a submission was refused while one student of the assignment
\* has submitted and another has not.
C1_Witness ==
    /\ pc[1] = "idle"
    /\ req[1].op = "addSubmission"
    /\ res[1].thrown
    /\ \E sa \in studentAssignments : sa.status_id = SUBMITTED
    /\ \E sa \in studentAssignments : sa.status_id = PENDING

\* C2: in every reachable state, whatever interleaving of createAssignment
\* and addSubmission calls led to it, no two StudentAssignment rows and no two
\* Submission rows carry the same (assignment_id, student_id) pair.
C2_OneRowPerPair ==
    /\ \A r1, r2 \in studentAssignments :
        (r1.assignment_id = r2.assignment_id /\ r1.student_id = r2.student_id)
            => r1 = r2
    /\ \A s1, s2 \in submissions :
        (s1.assignment_id = s2.assignment_id /\ s1.student_id = s2.student_id)
            => s1 = s2

\* C2 happens: an assignment was created with the same student listed twice
\* (two ids drawn, one row kept), and of two submissions racing for one pair
\* one was stored and the other rejected by the unique key.
C2_Witness ==
    /\ seq.sa = 3
    /\ Cardinality(studentAssignments) = 1
    /\ Cardinality(submissions) = 1
    /\ \E p \in Procs :
        /\ pc[p] = "idle"
        /\ res[p].error.message = "duplicate key value violates unique constraint"
        /\ loc[p].studentAssignment # {}
        /\ \A r \in loc[p].studentAssignment : r.status_id = PENDING

\* C3 as stated: when a student who already has a Submission row for an
\* assignment submits again, the call fails classified as Conflict (409, on
\* the error the service throws or on the response), and the Submission rows
\* and the statuses are as before, with exactly one row for the pair.
C3_SecondSubmissionIsConflict ==
    (/\ pc[1] = "idle"
     /\ req[1].op = "addSubmission"
     /\ \E s \in before[1].submissions :
            s.assignment_id = req[1].id /\ s.student_id = loc[1].userId)
    => /\ res[1].thrown
       /\ res[1].error.status = 409 \/ res[1].status = 409
       /\ submissions = before[1].submissions
       /\ studentAssignments = before[1].studentAssignments
       /\ Cardinality({ s \in submissions :
                          s.assignment_id = req[1].id
                          /\ s.student_id = loc[1].userId }) = 1

\* C3, what the code does: the second submission fails with an error that
\* carries no status (if nothing else failed first, the unique key's
\* violation), answered with 500; rows and statuses are as before.
C3_SecondSubmissionUnclassified ==
    (/\ pc[1] = "idle"
     /\ req[1].op = "addSubmission"
     /\ \E s \in before[1].submissions :
            s.assignment_id = req[1].id /\ s.student_id = loc[1].userId)
    => /\ res[1].thrown
       /\ res[1].error.status = NoStatus
       /\ res[1].status = InternalError
       /\ res[1].error.message \in
            { "duplicate key value violates unique constraint",
              "database error", "storage error" }
       /\ submissions = before[1].submissions
       /\ studentAssignments = before[1].studentAssignments
       /\ Cardinality({ s \in submissions :
                          s.assignment_id = req[1].id
                          /\ s.student_id = loc[1].userId }) = 1

\* C3 happens: a second submission reached the INSERT and was rejected by the
\* unique key.
C3_Witness ==
    /\ pc[1] = "idle"
    /\ req[1].op = "addSubmission"
    /\ \E s \in before[1].submissions :
            s.assignment_id = req[1].id /\ s.student_id = loc[1].userId
    /\ res[1].error.message = "duplicate key value violates unique constraint"

\* C4 as stated: when two submissions for the same pair both passed the
\* assigned-check before either committed, and nothing else failed, exactly
\* one commits, the other fails classified as Conflict (409), and the stored
\* Submission carries the file URL of the call that committed.
C4_RaceLoserIsConflict ==
    \A p \in Procs : \A q \in Procs \ {p} :
        (/\ pc[p] = "idle" /\ pc[q] = "idle"
         /\ req[p].op = "addSubmission" /\ req[q].op = "addSubmission"
         /\ req[p].id = req[q].id /\ loc[p].userId = loc[q].userId
         /\ loc[p].studentAssignment # {} /\ loc[q].studentAssignment # {}
         /\ \A r \in loc[p].studentAssignment \cup loc[q].studentAssignment :
                r.status_id = PENDING
         /\ res[p].error.message \notin {"database error", "storage error"}
         /\ res[q].error.message \notin {"database error", "storage error"}
         /\ ~res[p].thrown)
        => /\ res[q].thrown
           /\ res[q].error.status = 409 \/ res[q].status = 409
           /\ { s \in submissions : s.assignment_id = req[p].id
                                    /\ s.student_id = loc[p].userId }
                = { SubmissionRow(s.id, req[p].id, loc[p].userId, S3Url(loc[p].key)) :
                      s \in loc[p].body }

\* C4, what the code does: of the two racing submissions one commits and the
\* other fails on the unique key with an error that carries no status,
\* answered with 500; the stored row is the committer's.
C4_RaceLoserUnclassified ==
    \A p \in Procs : \A q \in Procs \ {p} :
        (/\ pc[p] = "idle" /\ pc[q] = "idle"
         /\ req[p].op = "addSubmission" /\ req[q].op = "addSubmission"
         /\ req[p].id = req[q].id /\ loc[p].userId = loc[q].userId
         /\ loc[p].studentAssignment # {} /\ loc[q].studentAssignment # {}
         /\ \A r \in loc[p].studentAssignment \cup loc[q].studentAssignment :
                r.status_id = PENDING
         /\ res[p].error.message \notin {"database error", "storage error"}
         /\ res[q].error.message \notin {"database error", "storage error"})
        => /\ res[p].thrown # res[q].thrown
           /\ ~res[p].thrown =>
                /\ res[q].error.message =
                        "duplicate key value violates unique constraint"
                /\ res[q].error.status = NoStatus
                /\ res[q].status = InternalError
                /\ { s \in submissions : s.assignment_id = req[p].id
                                         /\ s.student_id = loc[p].userId }
                     = { SubmissionRow(s.id, req[p].id, loc[p].userId,
                                       S3Url(loc[p].key)) : s \in loc[p].body }

\* C4 happens: both submissions passed the assigned-check while the status
\* was PENDING, one committed and the other was rejected by the unique key.
C4_Witness ==
    \E p \in Procs : \E q \in Procs \ {p} :
        /\ pc[p] = "idle" /\ pc[q] = "idle"
        /\ req[p].op = "addSubmission" /\ req[q].op = "addSubmission"
        /\ req[p].id = req[q].id /\ loc[p].userId = loc[q].userId
        /\ \A r \in loc[p].studentAssignment \cup loc[q].studentAssignment :
                r.status_id = PENDING
        /\ ~res[p].thrown
        /\ res[q].error.message = "duplicate key value violates unique constraint"
        /\ loc[p].key # loc[q].key

\* C5: whatever a reader reads while submissions are in flight, the list a
\* student gets (getAssignments), the submissions a student or a tutor gets
\* (getAssignmentDetails) and the rows the deadline scanner gets agree: status
\* SUBMITTED comes with the pair's Submission row, and a pair read as PENDING
\* has no Submission row.
C5_ReadersSeeBothOrNeither ==
    \A u \in Users : \A now \in 0..2 :
        /\ \A r \in getStudentAssignments(u.id, NoFilter, NoFilter, now) :
            /\ r.status_id = SUBMITTED =>
                /\ getSubmissionForStudent(r.id, u.id) # {}
                /\ \E s \in getSubmissionsForTutor(r.id) : s.student_id = u.id
            /\ r.status_id = PENDING =>
                /\ getSubmissionForStudent(r.id, u.id) = {}
                /\ \A s \in getSubmissionsForTutor(r.id) : s.student_id # u.id
        /\ \A n \in fetchUpcomingAssignments(now) :
            n.student_email = u.email =>
                getSubmissionForStudent(n.assignment_id, u.id) = {}

\* C5 happens: a reader is about to query while a submission has written its
\* row and its status update and has not committed.
C5_Witness ==
    /\ pc[2] \in {"l_query", "g_query"}
    /\ pc[1] = "s_commit"
    /\ tx[1].sub # {}
    /\ tx[1].upd # {}
    /\ fetchUpcomingAssignments(1) # {}

\* C6: when addSubmission fails after its transaction was opened (at the
\* insert, the status update or the commit), the Submission rows and the
\* StudentAssignment rows, statuses included, are as they were before the call.
C6_FailedSubmissionRolledBack ==
    (/\ pc[1] = "idle"
     /\ req[1].op = "addSubmission"
     /\ res[1].thrown
     /\ loc[1].client)
    => /\ submissions = before[1].submissions
       /\ studentAssignments = before[1].studentAssignments

\* C6 happens: the submission failed after its INSERT had succeeded.
C6_Witness ==
    /\ pc[1] = "idle"
    /\ req[1].op = "addSubmission"
    /\ res[1].thrown
    /\ loc[1].client
    /\ loc[1].body # {}

\* C7 as stated: a create, update or delete call by a requester whose role is
\* not TUTOR fails classified as Forbidden (403, on the error thrown or on the
\* response), and the blob store and the tables are as before the call.
C7_NonTutorIsForbidden ==
    \A u \in Users :
        (/\ pc[1] = "idle"
         /\ req[1].op \in {"createAssignment", "updateAssignment", "deleteAssignment"}
         /\ req[1].username = u.username
         /\ u.role_id # TUTOR)
        => /\ res[1].thrown
           /\ res[1].error.status = Forbidden \/ res[1].status = Forbidden
           /\ Snapshot = before[1]

\* C7, what the code does: the call fails and changes nothing; update and
\* delete answer 403, create answers 500 whatever the error, and a create
\* request that lacks a field fails on the field before the role is looked at.
C7_NonTutorChangesNothing ==
    \A u \in Users :
        (/\ pc[1] = "idle"
         /\ req[1].op \in {"createAssignment", "updateAssignment", "deleteAssignment"}
         /\ req[1].username = u.username
         /\ u.role_id # TUTOR)
        => /\ res[1].thrown
           /\ Snapshot = before[1]
           /\ req[1].op # "createAssignment" =>
                res[1].status = Forbidden /\ res[1].error.status = Forbidden
           /\ req[1].op = "createAssignment" =>
                /\ res[1].status = InternalError
                /\ res[1].error.status = Forbidden
                        <=> CreateAssignmentRequestError(req[1]) = NoError

\* C7 happens: a student's create request without a title was answered.
C7_Witness ==
    /\ pc[1] = "idle"
    /\ req[1].op = "createAssignment"
    /\ req[1].username = "s1"
    /\ req[1].title = NoTitle
    /\ res[1].thrown
    /\ assignments # {}

\* C8: an update or delete of assignment X by a tutor who did not create X
\* fails with Forbidden and leaves X, the blobs and the child rows as they
\* were; the tutor who created X is not refused: the call succeeds with its
\* effect, unless the blob store fails or the update names no field.
C8_OnlyTheCreatorMutates ==
    \A u \in Users : \A a \in before[1].assignments :
        (/\ pc[1] = "idle"
         /\ req[1].op \in {"updateAssignment", "deleteAssignment"}
         /\ req[1].username = u.username
         /\ u.role_id = TUTOR
         /\ a.id = req[1].id)
        => IF a.tutor_id # u.id
           THEN /\ res[1].thrown
                /\ res[1].error.status = Forbidden
                /\ res[1].status = Forbidden
                /\ Snapshot = before[1]
           ELSE \/ /\ res[1].thrown
                   /\ res[1].error.message \in
                        {"No fields provided to update", "storage error"}
                \/ /\ ~res[1].thrown
                   /\ res[1].status = Ok
                   /\ req[1].op = "deleteAssignment" =>
                        /\ \A x \in assignments : x.id # a.id
                        /\ \A x \in studentAssignments : x.assignment_id # a.id
                        /\ \A x \in submissions : x.assignment_id # a.id
                        /\ KeyOfUrl(a.s3_url) \notin blobs
                   /\ req[1].op = "updateAssignment" =>
                        /\ \E x \in assignments :
                            /\ x.id = a.id
                            /\ x.tutor_id = a.tutor_id
                            /\ req[1].title # NoTitle => x.title = req[1].title
                            /\ req[1].dueDate # NoDate => x.deadline = req[1].dueDate
                        /\ studentAssignments = before[1].studentAssignments
                        /\ submissions = before[1].submissions
                        /\ blobs = before[1].blobs

\* C8 happens: a tutor asked to delete another tutor's assignment, which has
\* a blob and child rows, and was refused.
C8_Witness ==
    /\ pc[1] = "idle"
    /\ req[1].op = "deleteAssignment"
    /\ res[1].error.message = "You can only delete assignments you created"
    /\ \E a \in assignments :
        /\ a.id = req[1].id
        /\ KeyOfUrl(a.s3_url) \in blobs
        /\ \E r \in studentAssignments : r.assignment_id = a.id

\* C9: addSubmission succeeds only for a requester with role STUDENT who has
\* a StudentAssignment row for the assignment; any other known requester fails
\* with Forbidden, and then no file was uploaded and no Submission row created.
C9_OnlyAssignedStudentsSubmit ==
    \A u \in Users :
        (/\ pc[1] = "idle"
         /\ req[1].op = "addSubmission"
         /\ req[1].username = u.username)
        => /\ ~res[1].thrown =>
                /\ u.role_id = STUDENT
                /\ \E r \in before[1].studentAssignments :
                    r.assignment_id = req[1].id /\ r.student_id = u.id
           /\ ~(/\ u.role_id = STUDENT
                /\ \E r \in before[1].studentAssignments :
                    r.assignment_id = req[1].id /\ r.student_id = u.id) =>
                /\ res[1].thrown
                /\ res[1].error.status = Forbidden
                /\ res[1].status = Forbidden
                /\ blobs = before[1].blobs
                /\ submissions = before[1].submissions
                /\ nextKey \notin blobs

\* C9 happens: a student who is not on the list of an existing assignment
\* that has other students assigned was refused.
C9_Witness ==
    /\ pc[1] = "idle"
    /\ req[1].op = "addSubmission"
    /\ res[1].error.message = "Student has not been assigned this assignment"
    /\ \E a \in assignments : a.id = req[1].id
    /\ \E r \in studentAssignments : r.assignment_id = req[1].id

\* C10: when createAssignment fails after the Assignment row was inserted (at
\* the fan-out insert or at the commit), the tables are as before the call:
\* no StudentAssignment row exists for that assignment and the Assignment row
\* is not persisted.
C10_FailedCreateLeavesNoRows ==
    (/\ pc[1] = "idle"
     /\ req[1].op = "createAssignment"
     /\ res[1].thrown
     /\ loc[1].newId # NoId)
    => /\ assignments = before[1].assignments
       /\ studentAssignments = before[1].studentAssignments
       /\ submissions = before[1].submissions
       /\ \A a \in assignments : a.id # loc[1].newId
       /\ \A r \in studentAssignments : r.assignment_id # loc[1].newId

\* C10 happens: the fan-out named a student that does not exist, after an
\* earlier assignment had been stored with its rows.
C10_Witness ==
    /\ pc[1] = "idle"
    /\ req[1].op = "createAssignment"
    /\ res[1].error.message = "violates foreign key constraint"
    /\ loc[1].newId # NoId
    /\ studentAssignments # {}

\* C11: createAssignment with a student list that names a student more than
\* once is not rejected for the duplicate (it fails only when the database or
\* the blob store fails), and when it succeeds exactly one StudentAssignment
\* row exists for each listed student.
C11_DuplicateStudentIgnored ==
    (/\ pc[1] = "idle"
     /\ req[1].op = "createAssignment"
     /\ \E i, j \in 1..Len(req[1].studentIds) :
            i # j /\ req[1].studentIds[i] = req[1].studentIds[j]
     /\ \E u \in Users : u.username = req[1].username /\ u.role_id = TUTOR)
    => /\ res[1].thrown =>
            /\ res[1].error.message \in {"database error", "storage error"}
            /\ res[1].error.status # 409 /\ res[1].status # 409
       /\ ~res[1].thrown =>
            \A i \in 1..Len(req[1].studentIds) :
                Cardinality({ r \in studentAssignments :
                                /\ r.assignment_id = loc[1].newId
                                /\ r.student_id = req[1].studentIds[i] }) = 1

\* C11 happens: a create call whose list names student 3 twice succeeded;
\* two ids were drawn from the sequence and one row was kept.
C11_Witness ==
    /\ pc[1] = "idle"
    /\ req[1].op = "createAssignment"
    /\ req[1].studentIds = <<3, 3>>
    /\ ~res[1].thrown
    /\ res[1].status = Created
    /\ \E r \in studentAssignments : r.assignment_id = loc[1].newId

\* C12: a successful createAssignment by tutor T with student list L leaves
\* exactly one new Assignment row, with tutor T and the URL of the blob the
\* call uploaded, and exactly one new StudentAssignment row, PENDING, for each
\* distinct student of L and for no other student; all earlier rows stay.
C12_CreateStoresAssignmentAndFanOut ==
    \A u \in Users :
        (/\ pc[1] = "idle"
         /\ req[1].op = "createAssignment"
         /\ req[1].username = u.username
         /\ ~res[1].thrown)
        => /\ loc[1].key \in blobs \ before[1].blobs
           /\ \E a \in assignments :
                /\ a.id = loc[1].newId
                /\ a.tutor_id = u.id
                /\ u.role_id = TUTOR
                /\ a.s3_url = S3Url(loc[1].key)
                /\ a.title = req[1].title
                /\ a.deadline = req[1].dueDate
                /\ a \notin before[1].assignments
                /\ assignments = before[1].assignments \cup {a}
                /\ res[1].body = {a}
           /\ before[1].studentAssignments \subseteq studentAssignments
           /\ \A r \in studentAssignments \ before[1].studentAssignments :
                r.assignment_id = loc[1].newId /\ r.status_id = PENDING
           /\ \A s \in UserIds :
                Cardinality({ r \in studentAssignments :
                                r.assignment_id = loc[1].newId /\ r.student_id = s })
                    = IF \E i \in 1..Len(req[1].studentIds) : req[1].studentIds[i] = s
                      THEN 1 ELSE 0

\* C12 happens: tutor t1 created an assignment for students 3 and 4 and the
\* two PENDING rows exist.
C12_Witness ==
    /\ pc[1] = "idle"
    /\ req[1].op = "createAssignment"
    /\ req[1].username = "t1"
    /\ req[1].studentIds = <<3, 4>>
    /\ ~res[1].thrown
    /\ Cardinality({ r \in studentAssignments :
                        r.assignment_id = loc[1].newId /\ r.status_id = PENDING }) = 2

\* C13: in every step, a StudentAssignment row that is still there afterwards
\* and whose status differs went from PENDING to SUBMITTED, and the step is the
\* successful commit of an addSubmission by that student for that assignment.
\* So a SUBMITTED row stays SUBMITTED while it exists, and create, update,
\* delete, list, details and the scanner change no status.
C13_StatusOnlyMovesToSubmitted ==
    [][ \A r \in studentAssignments : \A n \in studentAssignments' :
            (n.id = r.id /\ n.status_id # r.status_id) =>
                /\ r.status_id = PENDING
                /\ n.status_id = SUBMITTED
                /\ \E p \in Procs :
                    /\ pc[p] = "s_commit"
                    /\ pc'[p] = "idle"
                    /\ ~res'[p].thrown
                    /\ req[p].op = "addSubmission"
                    /\ req[p].id = r.assignment_id
                    /\ loc[p].userId = r.student_id ]_vars

\* C13 happens: after a student's submission turned a row SUBMITTED while
\* another row of the assignment stayed PENDING, the scanner ran and mailed
\* the student who has not submitted.
C13_Witness ==
    /\ \E r \in studentAssignments : r.status_id = SUBMITTED
    /\ \E r \in studentAssignments : r.status_id = PENDING
    /\ outbox # {}

\* C14: when a list request has been answered, then for a fixed now (either
\* publication time the model uses) the requester's listing, the tutor's or the
\* student's under the requested status filter, filtered by SCHEDULED holds
\* exactly the unfiltered rows with published_at > now, filtered by ONGOING
\* exactly those with published_at <= now; the two are disjoint and together
\* are the unfiltered listing; and the answer itself holds only rows on the
\* requested side of now.
C14_PublishedAtFilterPartitions ==
    \A u \in Users :
        (/\ pc[1] = "idle"
         /\ req[1].op = "getAssignments"
         /\ req[1].username = u.username
         /\ ~res[1].thrown)
        => /\ \A now \in {1, 5} :
                IF u.role_id = TUTOR
                THEN /\ getTutorAssignments(u.id, "SCHEDULED", now)
                        = { a \in getTutorAssignments(u.id, NoFilter, now) :
                                a.published_at > now }
                     /\ getTutorAssignments(u.id, "ONGOING", now)
                        = { a \in getTutorAssignments(u.id, NoFilter, now) :
                                a.published_at <= now }
                     /\ getTutorAssignments(u.id, "SCHEDULED", now)
                        \cap getTutorAssignments(u.id, "ONGOING", now) = {}
                     /\ getTutorAssignments(u.id, "SCHEDULED", now)
                        \cup getTutorAssignments(u.id, "ONGOING", now)
                        = getTutorAssignments(u.id, NoFilter, now)
                ELSE /\ getStudentAssignments(u.id, "SCHEDULED", req[1].statusFilter, now)
                        = { a \in getStudentAssignments(u.id, NoFilter,
                                                        req[1].statusFilter, now) :
                                a.published_at > now }
                     /\ getStudentAssignments(u.id, "ONGOING", req[1].statusFilter, now)
                        = { a \in getStudentAssignments(u.id, NoFilter,
                                                        req[1].statusFilter, now) :
                                a.published_at <= now }
                     /\ getStudentAssignments(u.id, "SCHEDULED", req[1].statusFilter, now)
                        \cap getStudentAssignments(u.id, "ONGOING",
                                                   req[1].statusFilter, now) = {}
                     /\ getStudentAssignments(u.id, "SCHEDULED", req[1].statusFilter, now)
                        \cup getStudentAssignments(u.id, "ONGOING",
                                                   req[1].statusFilter, now)
                        = getStudentAssignments(u.id, NoFilter,
                                                req[1].statusFilter, now)
           /\ \E now \in ListTimes :
                /\ req[1].publishedAtFilter = "SCHEDULED" =>
                    \A a \in res[1].body : a.published_at > now
                /\ req[1].publishedAtFilter = "ONGOING" =>
                    \A a \in res[1].body : a.published_at <= now

\* C14 happens: a list filtered by SCHEDULED was answered with a row while an
\* assignment that is already published exists.
C14_Witness ==
    /\ pc[1] = "idle"
    /\ req[1].op = "getAssignments"
    /\ req[1].publishedAtFilter = "SCHEDULED"
    /\ res[1].body # {}
    /\ \E a \in assignments : a.published_at <= 1

\* C15: whatever the filters, the list answered to a tutor holds only
\* Assignment rows whose tutor is the requester, and the list answered to a
\* student only assignments for which a StudentAssignment row of the requester
\* exists.
C15_ListShowsOnlyOwnAssignments ==
    \A u \in Users :
        (/\ pc[1] = "idle"
         /\ req[1].op = "getAssignments"
         /\ req[1].username = u.username
         /\ ~res[1].thrown)
        => \A a \in res[1].body :
            /\ \E x \in assignments : x.id = a.id /\ x.tutor_id = a.tutor_id
            /\ u.role_id = TUTOR => a.tutor_id = u.id
            /\ u.role_id = STUDENT =>
                \E sa \in studentAssignments :
                    sa.assignment_id = a.id /\ sa.student_id = u.id
            /\ u.role_id \in {TUTOR, STUDENT}

\* C15 happens: a tutor's list was answered with a row while an assignment
\* of another tutor exists.
C15_Witness ==
    /\ pc[1] = "idle"
    /\ req[1].op = "getAssignments"
    /\ req[1].username = "t1"
    /\ res[1].body # {}
    /\ \E a \in assignments : a.tutor_id = 2

\* C15 also happens for a student: the list was answered with a row while an
\* assignment the student is not mapped to exists.
C15_StudentWitness ==
    /\ pc[1] = "idle"
    /\ req[1].op = "getAssignments"
    /\ req[1].username = "s1"
    /\ res[1].body # {}
    /\ \E a \in assignments :
        \A sa \in studentAssignments : sa.assignment_id = a.id => sa.student_id # 3

\* C16 as stated: a deleteAssignment by the tutor who owns the assignment
\* succeeds and deletes the Assignment row whether or not the deletion of the
\* blob succeeded: the only step that can fail for the owner is the blob
\* deletion, and its failure does not block the row deletion.
C16_BlobFailureDoesNotBlockDelete ==
    \A u \in Users : \A a \in before[1].assignments :
        (/\ pc[1] = "idle"
         /\ req[1].op = "deleteAssignment"
         /\ req[1].username = u.username
         /\ u.role_id = TUTOR
         /\ a.id = req[1].id
         /\ a.tutor_id = u.id)
        => /\ ~res[1].thrown
           /\ \A x \in assignments : x.id # a.id

\* C16, what the code does: when the blob deletion fails, the error reaches
\* the controller, which answers 500, and the Assignment row, its child rows
\* and the blob are all still there.
C16_BlobFailureBlocksDelete ==
    (/\ pc[1] = "idle"
     /\ req[1].op = "deleteAssignment"
     /\ res[1].error.message = "storage error")
    => /\ res[1].thrown
       /\ res[1].status = InternalError
       /\ Snapshot = before[1]
       /\ \E a \in assignments : a.id = req[1].id /\ KeyOfUrl(a.s3_url) \in blobs

\* C16 happens: the owner's delete ended on a failed blob deletion.
C16_Witness ==
    /\ pc[1] = "idle"
    /\ req[1].op = "deleteAssignment"
    /\ res[1].error.message = "storage error"
    /\ \E a \in assignments : a.id = req[1].id /\ a.tutor_id = loc[1].userId

\* C17: after a successful deleteAssignment of assignment X there is no
\* Assignment row for X and no StudentAssignment or Submission row that
\* references X, and the rows of every other assignment are what they were
\* before the call.
C17_DeleteRemovesAssignmentAndChildren ==
    (/\ pc[1] = "idle"
     /\ req[1].op = "deleteAssignment"
     /\ ~res[1].thrown)
    => /\ \A a \in assignments : a.id # req[1].id
       /\ \A sa \in studentAssignments : sa.assignment_id # req[1].id
       /\ \A s \in submissions : s.assignment_id # req[1].id
       /\ assignments = { a \in before[1].assignments : a.id # req[1].id }
       /\ studentAssignments =
            { sa \in before[1].studentAssignments :
                sa.assignment_id # req[1].id }
       /\ submissions =
            { s \in before[1].submissions : s.assignment_id # req[1].id }

\* C17 happens: a delete succeeded on an assignment that had a submission.
C17_Witness ==
    /\ pc[1] = "idle"
    /\ req[1].op = "deleteAssignment"
    /\ ~res[1].thrown
    /\ \E a \in before[1].assignments : a.id = req[1].id
    /\ \E s \in before[1].submissions : s.assignment_id = req[1].id
    /\ \E sa \in before[1].studentAssignments : sa.assignment_id = req[1].id

\* C17 happens with a bystander: a delete succeeded while another
\* assignment and its StudentAssignment rows existed.
C17_OtherAssignmentWitness ==
    /\ pc[1] = "idle"
    /\ req[1].op = "deleteAssignment"
    /\ ~res[1].thrown
    /\ \E a \in before[1].assignments : a.id = req[1].id
    /\ \E sa \in studentAssignments : sa.assignment_id # req[1].id

\* C18 as stated: in every reachable state, the states between the steps of
\* createAssignment, updateAssignment and deleteAssignment included, the
\* fileUrl of every Assignment row references a blob that exists in the
\* blob store.
C18_FileUrlAlwaysReferencesBlob ==
    \A a \in assignments : KeyOfUrl(a.s3_url) \in blobs

\* C18, what the code does: the fileUrl of an Assignment row references an
\* existing blob except for the row a deleteAssignment call is about to
\* delete, whose blob that call has already removed.
C18_FileUrlReferencesBlobUnlessBeingDeleted ==
    \A a \in assignments :
        \/ KeyOfUrl(a.s3_url) \in blobs
        \/ \E p \in Procs :
            /\ pc[p] = "d_delete"
            /\ req[p].id = a.id
            /\ loc[p].s3Url = a.s3_url

\* C18 happens: a deleteAssignment call stands between the deletion of the
\* blob and the deletion of the row.
C18_Witness ==
    /\ pc[1] = "d_delete"
    /\ \E a \in assignments :
        /\ a.id = req[1].id
        /\ KeyOfUrl(a.s3_url) \notin blobs

\* C19: a successful updateAssignment changes, on the targeted Assignment row
\* only, exactly the fields present in the request (title, description,
\* dueDate, publishedAt; PATCH /:id carries no file, so fileUrl is never
\* present); every absent field keeps its previous value, tutorId and the
\* row's id never change, and every other Assignment row and every
\* StudentAssignment and Submission row is unchanged.
C19_UpdateChangesOnlyPresentFields ==
    (/\ pc[1] = "idle"
     /\ req[1].op = "updateAssignment"
     /\ ~res[1].thrown)
    => /\ \E old \in before[1].assignments : \E new \in assignments :
            /\ old.id = req[1].id
            /\ new.id = old.id
            /\ new.tutor_id = old.tutor_id
            /\ new.title =
                 IF req[1].title = NoTitle THEN old.title ELSE req[1].title
            /\ new.description =
                 IF req[1].description = NoText THEN old.description
                 ELSE req[1].description
            /\ new.deadline =
                 IF req[1].dueDate = NoDate THEN old.deadline
                 ELSE req[1].dueDate
            /\ new.published_at =
                 IF req[1].publishedAt = NoDate THEN old.published_at
                 ELSE req[1].publishedAt
            /\ new.s3_url = old.s3_url
            /\ assignments \ {new} = before[1].assignments \ {old}
            /\ res[1].body = {new}
       /\ studentAssignments = before[1].studentAssignments
       /\ submissions = before[1].submissions
       /\ blobs = before[1].blobs

\* C19 happens: an update that carried a title and nothing else succeeded on
\* a row whose title it changed, while another Assignment row and a
\* StudentAssignment row existed.
C19_Witness ==
    /\ pc[1] = "idle"
    /\ req[1].op = "updateAssignment"
    /\ ~res[1].thrown
    /\ req[1].title # NoTitle
    /\ req[1].dueDate = NoDate
    /\ req[1].publishedAt = NoDate
    /\ \E old \in before[1].assignments :
        /\ old.id = req[1].id
        /\ old.title # req[1].title
    /\ \E a \in assignments : a.id # req[1].id
    /\ studentAssignments # {}

\* C19 happens for the other fields: an update that carried a description
\* and a publication time, and no title, succeeded.
C19_DescriptionWitness ==
    /\ pc[1] = "idle"
    /\ req[1].op = "updateAssignment"
    /\ ~res[1].thrown
    /\ req[1].title = NoTitle
    /\ req[1].description # NoText
    /\ \E a \in assignments :
        /\ a.id = req[1].id
        /\ a.description = req[1].description

\* C20 as stated: an updateAssignment by the owning tutor that carries no
\* updatable field (no title, description, dueDate, publishedAt and no file)
\* fails as invalid input, i.e. with an error the caller is told is its own
\* (a 4xx status on the error or on the answer), and leaves the Assignment
\* row unchanged.
C20_EmptyUpdateIsInvalidInput ==
    \A a \in before[1].assignments :
        (/\ pc[1] = "idle"
         /\ req[1].op = "updateAssignment"
         /\ a.id = req[1].id
         /\ a.tutor_id = loc[1].userId
         /\ req[1].title = NoTitle
         /\ req[1].description = NoText
         /\ req[1].dueDate = NoDate
         /\ req[1].publishedAt = NoDate
         /\ ~req[1].file)
        => /\ res[1].thrown
           /\ \/ res[1].error.status \in 400..499
              \/ res[1].status \in 400..499
           /\ a \in assignments

\* C20, what the code does: the empty update by the owner fails and changes
\* nothing, but the error is a plain Error without a status, which the
\* controller answers as an internal error.
C20_EmptyUpdateFailsUnclassified ==
    \A a \in before[1].assignments :
        (/\ pc[1] = "idle"
         /\ req[1].op = "updateAssignment"
         /\ a.id = req[1].id
         /\ a.tutor_id = loc[1].userId
         /\ req[1].title = NoTitle
         /\ req[1].description = NoText
         /\ req[1].dueDate = NoDate
         /\ req[1].publishedAt = NoDate
         /\ ~req[1].file)
        => /\ res[1].thrown
           /\ res[1].error = Error(NoStatus, "No fields provided to update")
           /\ res[1].status = InternalError
           /\ Snapshot = before[1]

\* C20 happens: the owner's update without any field has been answered.
C20_Witness ==
    /\ pc[1] = "idle"
    /\ req[1].op = "updateAssignment"
    /\ res[1].error.message = "No fields provided to update"
    /\ \E a \in assignments :
        /\ a.id = req[1].id
        /\ a.tutor_id = loc[1].userId

\* C21: when the blob upload fails in createAssignment or addSubmission, the
\* error propagates to the caller and no database write has occurred: the
\* call holds no transaction, no blob was stored, and every Assignment,
\* StudentAssignment (status included) and Submission row is what it was
\* when the request arrived.
C21_UploadFailureWritesNothing ==
    (/\ pc[1] = "idle"
     /\ req[1].op \in {"createAssignment", "addSubmission"}
     /\ res[1].error.message = "storage error")
    => /\ res[1].thrown
       /\ tx[1] = NoTx
       /\ loc[1].s3Url = NoUrl
       /\ Snapshot = before[1]

\* C21 happens: the upload of a complete createAssignment by a tutor failed
\* while rows existed already.
C21_Witness ==
    /\ pc[1] = "idle"
    /\ req[1].op = "createAssignment"
    /\ res[1].error.message = "storage error"
    /\ assignments # {}
    /\ studentAssignments # {}

\* C21 happens for addSubmission: the upload of an assigned student's
\* submission failed.
C21_SubmissionWitness ==
    /\ pc[1] = "idle"
    /\ req[1].op = "addSubmission"
    /\ res[1].error.message = "storage error"
    /\ \E sa \in studentAssignments :
        /\ sa.assignment_id = req[1].id
        /\ sa.student_id = loc[1].userId
        /\ sa.status_id = PENDING

\* C22 as stated: a createAssignment that misses its title, its dueDate or
\* its file fails as invalid input, i.e. with an error the caller is told is
\* its own (a 4xx status on the error or on the answer), before any external
\* side effect: no blob is uploaded and no row is written, whatever the
\* requester's role.
C22_IncompleteCreateIsInvalidInput ==
    (/\ pc[1] = "idle"
     /\ req[1].op = "createAssignment"
     /\ \/ req[1].title = NoTitle
        \/ req[1].dueDate = NoDate
        \/ ~req[1].file)
    => /\ res[1].thrown
       /\ \/ res[1].error.status \in 400..499
          \/ res[1].status \in 400..499
       /\ Snapshot = before[1]

\* C22, what the code does: the incomplete create fails in the request's
\* constructor, before the requester is even looked up, and changes nothing;
\* the error is a plain Error without a status and the controller answers it
\* as an internal error.
C22_IncompleteCreateFailsUnclassified ==
    (/\ pc[1] = "idle"
     /\ req[1].op = "createAssignment"
     /\ \/ req[1].title = NoTitle
        \/ req[1].dueDate = NoDate
        \/ ~req[1].file)
    => /\ res[1].thrown
       /\ res[1].error.status = NoStatus
       /\ res[1].error.message \in
            {"Title is required", "Due date is required", "File is required"}
       /\ res[1].status = InternalError
       /\ loc[1] = NoLoc
       /\ tx[1] = NoTx
       /\ Snapshot = before[1]

\* C22 happens: a tutor's create without a due date has been answered while
\* rows and blobs existed.
C22_Witness ==
    /\ pc[1] = "idle"
    /\ req[1].op = "createAssignment"
    /\ req[1].username = "t1"
    /\ req[1].dueDate = NoDate
    /\ res[1].thrown
    /\ assignments # {}
    /\ blobs # {}

\* C23: getAssignmentDetails answers a TUTOR with all Submission rows of the
\* assignment, each carrying the submitting student's username, and a
\* STUDENT with that student's own Submission row of the assignment, or with
\* null (the empty answer, not an error) when the student has not submitted;
\* a student never receives another student's submission.
C23_DetailsByRole ==
    \A u \in Users :
        (/\ pc[1] = "idle"
         /\ req[1].op = "getAssignmentDetails"
         /\ req[1].username = u.username)
        => /\ ~res[1].thrown
           /\ res[1].status = Ok
           /\ u.role_id = TUTOR =>
                /\ \A s \in submissions :
                     s.assignment_id = req[1].id =>
                        \E b \in res[1].body : \E w \in Users :
                            /\ b.id = s.id
                            /\ b.assignment_id = s.assignment_id
                            /\ b.student_id = s.student_id
                            /\ b.s3_url = s.s3_url
                            /\ w.id = s.student_id
                            /\ b.username = w.username
                /\ \A b \in res[1].body :
                     \E s \in submissions :
                        s.id = b.id /\ s.assignment_id = req[1].id
                /\ Cardinality(res[1].body) =
                     Cardinality({ s \in submissions :
                                     s.assignment_id = req[1].id })
           /\ u.role_id = STUDENT =>
                /\ \A b \in res[1].body :
                     /\ b \in submissions
                     /\ b.assignment_id = req[1].id
                     /\ b.student_id = u.id
                /\ \A s \in submissions :
                     (s.assignment_id = req[1].id /\ s.student_id = u.id)
                        => s \in res[1].body
                /\ Cardinality(res[1].body) <= 1

\* C23 happens: a student who has not submitted asked for the details of an
\* assignment another student has submitted, and was answered with null.
C23_Witness ==
    /\ pc[1] = "idle"
    /\ req[1].op = "getAssignmentDetails"
    /\ req[1].username = "s1"
    /\ ~res[1].thrown
    /\ res[1].body = {}
    /\ \E s \in submissions : s.assignment_id = req[1].id /\ s.student_id # 3

\* C23 happens for the tutor: the answer carries a submission and the
\* submitting student's username.
C23_TutorWitness ==
    /\ pc[1] = "idle"
    /\ req[1].op = "getAssignmentDetails"
    /\ req[1].username = "t1"
    /\ \E b \in res[1].body : b.username \in {"s1", "s2"}

\* C23 happens for the student's own row.
C23_OwnRowWitness ==
    /\ pc[1] = "idle"
    /\ req[1].op = "getAssignmentDetails"
    /\ req[1].username = "s1"
    /\ \E b \in res[1].body : b.student_id = 3

C24_OutsideWindowWitness ==
    /\ scan.pc = "idle"
    /\ scan.tick > 0
    /\ scan.tick \notin scan.failed
    /\ \A c \in log : c.tick # scan.tick
    /\ \E sa \in studentAssignments : \E a \in assignments :
        /\ sa.assignment_id = a.id
        /\ sa.status_id = PENDING
        /\ a.deadline = 122
        /\ scan.now > 4

\* C25: within one run of the scheduler's job a rejected sendMail does not
\* end the loop: while the loop runs, every row of the run's result either is
\* still to come or has had its sendMail call, and when the run has ended
\* every row has had its call, rejected calls among them or not; and neither
\* a rejected sendMail nor a failed query stops the next run, which the
\* scheduler can start whenever the job is not running.
C25_FailuresDoNotStopTheJob ==
    /\ scan.pc \in {"send", "idle"} =>
        \A n \in scan.rows :
            \/ scan.pc = "send" /\ n \in scan.todo
            \/ \E c \in log :
                /\ c.tick = scan.tick
                /\ c.assignment_id = n.assignment_id
                /\ c.mail.to = n.student_email
    /\ scan.pc = "send" => scan.todo # {}
    /\ (scan.pc = "idle" /\ pc[1] = "idle" /\ pc[2] = "idle"
                         /\ scan.tick < MaxTicks)
        => ENABLED scheduleNotificationJob

\* C25 happens: in one run the sendMail for the first row was rejected and
\* the sendMail for the second row was made all the same.
C25_Witness ==
    /\ scan.pc = "idle"
    /\ \E c \in log : \E d \in log :
        /\ c.tick = scan.tick
        /\ d.tick = scan.tick
        /\ c.mail.to = "s1@x"
        /\ ~c.delivered
        /\ d.mail.to = "s2@x"
        /\ d.assignment_id = c.assignment_id

\* C25 happens across runs: a run whose query failed was followed by a run
\* that called sendMail.
C25_AfterQueryFailureWitness ==
    /\ scan.pc = "idle"
    /\ \E k \in scan.failed : k < scan.tick
    /\ \E d \in log : d.tick = scan.tick

\* C25 happens across runs: a run with a rejected sendMail was followed by a
\* run that called sendMail.
C25_AfterDeliveryFailureWitness ==
    /\ scan.pc = "idle"
    /\ \E c \in log : ~c.delivered /\ c.tick < scan.tick
    /\ \E d \in log : d.tick = scan.tick

\* C26 as stated: with runs exactly one minute apart and deadlines unchanged,
\* no (student, assignment) pair is notified in two different runs (a
\* rejected sendMail does not count as a notification).
C26_NoPairNotifiedInTwoRuns ==
    \A c \in log : \A d \in log :
        (c.assignment_id = d.assignment_id /\ c.mail.to = d.mail.to
                                           /\ c.delivered /\ d.delivered)
            => c.tick = d.tick

\* C26, what the code does: BETWEEN takes both ends of the window, which is
\* as long as the time between two runs, so a pair is notified in two runs,
\* one after the other, when the first of them falls exactly one hour before
\* the deadline, and in one run only otherwise.
C26_TwoRunsOnlyOnTheHour ==
    \A c \in log : \A d \in log :
        (c.assignment_id = d.assignment_id /\ c.mail.to = d.mail.to
                                           /\ c.tick < d.tick)
            => /\ d.tick = c.tick + 1
               /\ d.now = c.now + TickPeriod
               /\ c.mail.deadline = c.now + 120
               /\ d.mail.deadline = c.mail.deadline

\* C26 happens: two runs in a row have sent a mail to the same student for
\* the same assignment, whose deadline did not change.
C26_Witness ==
    \E c \in log : \E d \in log :
        /\ c.assignment_id = d.assignment_id
        /\ c.mail.to = d.mail.to
        /\ c.tick < d.tick
        /\ c.delivered
        /\ d.delivered
        /\ c.mail.deadline = d.mail.deadline

\* C26 happens off the hour: a pair was notified in one run, and the runs
\* before and after it did not notify it.
C26_SingleRunWitness ==
    /\ scan.pc = "idle"
    /\ scan.tick = 3
    /\ \E c \in log :
        /\ c.tick = 1
        /\ c.delivered
        /\ \A d \in log : d.tick = 1

\* C27 as stated: a rejected sendMail is retried: once the job is not running
\* and no later run can select the row any more (the window of the next run
\* begins after the deadline), every rejected call made for a row that is
\* still PENDING has been followed by another call for the same student and
\* assignment, in the same run or in a later one.
C27_RejectedSendIsRetried ==
    \A c \in log :
        (/\ scan.pc = "idle"
         /\ ~c.delivered
         /\ c.mail.deadline < scan.now + TickPeriod + 118
         /\ \E sa \in studentAssignments : \E u \in Users :
                /\ sa.assignment_id = c.assignment_id
                /\ sa.student_id = u.id
                /\ u.email = c.mail.to
                /\ sa.status_id = PENDING)
        => \E d \in log :
            /\ d.assignment_id = c.assignment_id
            /\ d.mail.to = c.mail.to
            /\ \/ d.tick > c.tick
               \/ d.tick = c.tick /\ d.attempt > c.attempt

\* C27, what the code does: the catch block of the loop only logs, so a run
\* calls sendMail once for a row, whether the call is rejected or not.
C27_OneCallPerRowAndRun ==
    \A c \in log :
        /\ c.attempt = 1
        /\ \A d \in log :
            (d.tick = c.tick /\ d.assignment_id = c.assignment_id
                             /\ d.mail.to = c.mail.to)
                => d = c

\* C27 happens: the only sendMail call ever made for a student's PENDING
\* assignment was rejected, and the deadline is out of reach of the runs to
\* come.
C27_Witness ==
    /\ scan.pc = "idle"
    /\ \E c \in log :
        /\ ~c.delivered
        /\ c.mail.to = "s1@x"
        /\ c.mail.deadline < scan.now + TickPeriod + 118
        /\ \A d \in log :
            (d.assignment_id = c.assignment_id /\ d.mail.to = c.mail.to)
                => d = c
        /\ \E sa \in studentAssignments :
            /\ sa.assignment_id = c.assignment_id
            /\ sa.student_id = 3
            /\ sa.status_id = PENDING

\* C28 as stated: when a caller sends a whole createAssignment or
\* addSubmission again after the first attempt has committed (its answer was
\* lost), the retry produces no duplicate row: at most one Assignment row
\* exists for the retried create request and at most one Submission row for
\* the retried submission.
C28_RetryAddsNoDuplicateRow ==
    /\ (/\ pc[1] = "idle"
        /\ req[1].op = "createAssignment"
        /\ \E a \in before[1].assignments :
            /\ a.tutor_id = loc[1].userId
            /\ a.title = req[1].title
            /\ a.description = req[1].description
            /\ a.deadline = req[1].dueDate)
       => Cardinality({ a \in assignments :
                          /\ a.tutor_id = loc[1].userId
                          /\ a.title = req[1].title
                          /\ a.description = req[1].description
                          /\ a.deadline = req[1].dueDate }) <= 1
    /\ (/\ pc[1] = "idle"
        /\ req[1].op = "addSubmission")
       => Cardinality({ x \in submissions :
                          /\ x.assignment_id = req[1].id
                          /\ x.student_id = loc[1].userId }) <= 1

\* C28, what the code does: a retried submission is stopped by the unique
\* key and adds nothing, but tblm_assignments has no key other than its
\* SERIAL id, so every createAssignment that succeeds adds a row, whether a
\* row of the same request exists or not.
C28_RetriedCreateAddsARow ==
    /\ (/\ pc[1] = "idle"
        /\ req[1].op = "createAssignment"
        /\ ~res[1].thrown)
       => Cardinality({ a \in assignments :
                          /\ a.tutor_id = loc[1].userId
                          /\ a.title = req[1].title
                          /\ a.description = req[1].description
                          /\ a.deadline = req[1].dueDate })
          = 1 + Cardinality({ a \in before[1].assignments :
                                /\ a.tutor_id = loc[1].userId
                                /\ a.title = req[1].title
                                /\ a.description = req[1].description
                                /\ a.deadline = req[1].dueDate })
    /\ (/\ pc[1] = "idle"
        /\ req[1].op = "addSubmission"
        /\ \E x \in before[1].submissions :
            /\ x.assignment_id = req[1].id
            /\ x.student_id = loc[1].userId)
       => /\ res[1].thrown
          /\ submissions = before[1].submissions
          /\ studentAssignments = before[1].studentAssignments

\* C28 happens: the same createAssignment was sent again after its first
\* attempt had committed, and succeeded again.
C28_Witness ==
    /\ pc[1] = "idle"
    /\ req[1].op = "createAssignment"
    /\ ~res[1].thrown
    /\ \E a \in before[1].assignments : \E b \in assignments :
        /\ b \notin before[1].assignments
        /\ a.tutor_id = b.tutor_id
        /\ a.title = b.title
        /\ a.description = b.description
        /\ a.deadline = b.deadline
        /\ a.published_at = b.published_at
        /\ a.title = req[1].title

\* C28 happens for a submission: the same addSubmission was sent again after
\* its first attempt had committed.
C28_SubmissionWitness ==
    /\ pc[1] = "idle"
    /\ req[1].op = "addSubmission"
    /\ res[1].thrown
    /\ \E x \in before[1].submissions :
        /\ x.assignment_id = req[1].id
        /\ x.student_id = loc[1].userId
    /\ blobs # before[1].blobs

\* C29: when a student's list request has been answered, then for a fixed
\* now (before the deadlines, between them, after them) the student's listing
\* filtered by OVERDUE holds exactly the student's assignments whose
\* StudentAssignment row is PENDING and whose deadline < now; every OVERDUE
\* row is a PENDING row; the PENDING and SUBMITTED listings are disjoint and
\* together are the unfiltered listing; and an answer to an OVERDUE request
\* holds PENDING rows only, with deadlines that lie before the time of the
\* listing.
C29_OverdueIsPendingPastDeadline ==
    \A u \in Users :
        (/\ pc[1] = "idle"
         /\ req[1].op = "getAssignments"
         /\ req[1].username = u.username
         /\ u.role_id = STUDENT
         /\ ~res[1].thrown)
        => /\ \A now \in {1, 5, 121} :
                /\ getStudentAssignments(u.id, NoFilter, "OVERDUE", now)
                   = { JoinedRow(x[1], x[2]) :
                        x \in { y \in assignments \X studentAssignments :
                                  /\ y[1].id = y[2].assignment_id
                                  /\ y[2].student_id = u.id
                                  /\ y[2].status_id = PENDING
                                  /\ y[1].deadline < now } }
                /\ getStudentAssignments(u.id, NoFilter, "OVERDUE", now)
                   \subseteq getStudentAssignments(u.id, NoFilter, "PENDING", now)
                /\ getStudentAssignments(u.id, NoFilter, "PENDING", now)
                   \cap getStudentAssignments(u.id, NoFilter, "SUBMITTED", now)
                   = {}
                /\ getStudentAssignments(u.id, NoFilter, "PENDING", now)
                   \cup getStudentAssignments(u.id, NoFilter, "SUBMITTED", now)
                   = getStudentAssignments(u.id, NoFilter, NoFilter, now)
           /\ req[1].statusFilter = "OVERDUE" =>
                \E now \in ListTimes :
                    \A a \in res[1].body :
                        /\ a.status_id = PENDING
                        /\ a.deadline < now
                        /\ \E sa \in studentAssignments :
                            /\ sa.assignment_id = a.id
                            /\ sa.student_id = u.id
                            /\ sa.status_id = PENDING

\* C29 happens: a student's list filtered by OVERDUE was answered with an
\* assignment, PENDING and past its deadline.
C29_Witness ==
    /\ pc[1] = "idle"
    /\ req[1].op = "getAssignments"
    /\ req[1].username = "s1"
    /\ req[1].statusFilter = "OVERDUE"
    /\ res[1].body # {}

\* C29 happens with both statuses: a student's list was answered while the
\* student had a PENDING and a SUBMITTED assignment.
C29_BothStatusesWitness ==
    /\ pc[1] = "idle"
    /\ req[1].op = "getAssignments"
    /\ req[1].username = "s1"
    /\ ~res[1].thrown
    /\ \E sa \in studentAssignments :
        sa.student_id = 3 /\ sa.status_id = SUBMITTED

\* C30: a successful updateAssignment that supplies a new file has uploaded
\* it under a fresh key and set the Assignment's fileUrl to the new URL, and
\* has not deleted the old blob: the blob the row referenced before is still
\* in the store, next to the new one.
C30_NewFileKeepsOldBlob ==
    (/\ pc[1] = "idle"
     /\ req[1].op = "updateAssignment"
     /\ req[1].file
     /\ ~res[1].thrown)
    => \E old \in before[1].assignments : \E new \in assignments :
        /\ old.id = req[1].id
        /\ new.id = old.id
        /\ new.s3_url # old.s3_url
        /\ KeyOfUrl(new.s3_url) \notin before[1].blobs
        /\ KeyOfUrl(new.s3_url) \in blobs
        /\ KeyOfUrl(old.s3_url) \in blobs
        /\ blobs = before[1].blobs \cup {KeyOfUrl(new.s3_url)}
        /\ \A a \in assignments : a.id # new.id => a.s3_url # new.s3_url

\* C30 happens: the owner's update with a new file succeeded on an
\* assignment whose first blob was in the store.
C30_Witness ==
    /\ pc[1] = "idle"
    /\ req[1].op = "updateAssignment"
    /\ req[1].file
    /\ ~res[1].thrown
    /\ \E old \in before[1].assignments :
        /\ old.id = req[1].id
        /\ KeyOfUrl(old.s3_url) \in before[1].blobs

\* C31 as stated: when the owning tutor's updateAssignment carries a
\* replacement file and other fields and the blob store rejects the upload,
\* the other supplied fields are still persisted on the Assignment row.
C31_BlobFailureDoesNotBlockUpdate ==
    \A u \in Users : \A a \in before[1].assignments :
        (/\ pc[1] = "idle"
         /\ req[1].op = "updateAssignment"
         /\ req[1].file
         /\ req[1].title # NoTitle
         /\ req[1].username = u.username
         /\ u.role_id = TUTOR
         /\ a.id = req[1].id
         /\ a.tutor_id = u.id
         /\ res[1].error.message = "storage error")
        => \E x \in assignments : x.id = a.id /\ x.title = req[1].title

\* C31, what the code does: when the upload of the replacement file fails,
\* the error reaches the controller, which answers 500, the UPDATE is never
\* sent and the database and the blob store are what they were.
C31_BlobFailureBlocksUpdate ==
    (/\ pc[1] = "idle"
     /\ req[1].op = "updateAssignment"
     /\ req[1].file
     /\ res[1].error.message = "storage error")
    => /\ res[1].thrown
       /\ res[1].status = InternalError
       /\ Snapshot = before[1]

\* C31 happens: the owner's update with a replacement file and a new title
\* ended on a failed upload.
C31_Witness ==
    /\ pc[1] = "idle"
    /\ req[1].op = "updateAssignment"
    /\ req[1].file
    /\ req[1].title = "hw2"
    /\ res[1].error.message = "storage error"
    /\ \E a \in assignments :
        a.id = req[1].id /\ a.tutor_id = loc[1].userId /\ a.title # "hw2"

\* C32: an updateAssignment or deleteAssignment call by a tutor with an id
\* for which no Assignment row exists fails with NotFound (the error carries
\* status 404 and the controller answers 404) and changes neither the
\* database nor the blob store.
C32_MissingAssignmentIsNotFound ==
    \A u \in Users :
        (/\ pc[1] = "idle"
         /\ req[1].op \in {"updateAssignment", "deleteAssignment"}
         /\ req[1].username = u.username
         /\ u.role_id = TUTOR
         /\ \A a \in before[1].assignments : a.id # req[1].id)
        => /\ res[1].thrown
           /\ res[1].error = Error(NotFound, "Assignment not found")
           /\ res[1].status = NotFound
           /\ Snapshot = before[1]
           /\ tx[1] = NoTx

\* C32 happens: a tutor's update of an id with no row ended while another
\* assignment and its blob were in the stores.
C32_Witness ==
    /\ pc[1] = "idle"
    /\ req[1].op = "updateAssignment"
    /\ res[1].status = NotFound
    /\ \A a \in assignments : a.id # req[1].id
    /\ \E a \in assignments : KeyOfUrl(a.s3_url) \in blobs

\* C32 happens for deleteAssignment as well.
C32_DeleteWitness ==
    /\ pc[1] = "idle"
    /\ req[1].op = "deleteAssignment"
    /\ res[1].status = NotFound
    /\ \A a \in assignments : a.id # req[1].id
    /\ \E a \in assignments : KeyOfUrl(a.s3_url) \in blobs

\* C33 as stated: every workflow operation (create, update, delete, list,
\* submit, details) called with a username for which no user exists fails
\* with the NotFound classification (the error or the response carries 404),
\* before any blob-store call or database write.
C33_UnknownUserIsNotFound ==
    (/\ pc[1] = "idle"
     /\ req[1].op # "none"
     /\ \A u \in Users : u.username # req[1].username)
    => /\ res[1].thrown
       /\ (res[1].status = NotFound \/ res[1].error.status = NotFound)
       /\ Snapshot = before[1]

\* C33, what the code does: the call fails before any blob-store call or
\* database write, but with a plain Error that carries no status, which the
\* controller answers with 500.
C33_UnknownUserFailsUnclassified ==
    (/\ pc[1] = "idle"
     /\ req[1].op # "none"
     /\ \A u \in Users : u.username # req[1].username)
    => /\ res[1].thrown
       /\ res[1].error.status = NoStatus
       /\ res[1].status = InternalError
       /\ Snapshot = before[1]
       /\ tx[1] = NoTx
       /\ loc[1] = NoLoc

\* C33 happens: a call of an unknown user ended while an assignment, its
\* blob and a submission were in the stores.
C33_Witness ==
    /\ pc[1] = "idle"
    /\ req[1].op = "getAssignmentDetails"
    /\ req[1].username = "ghost"
    /\ res[1].thrown
    /\ \E a \in assignments : KeyOfUrl(a.s3_url) \in blobs
    /\ submissions # {}

\* C34: with the job run once a minute and no query or delivery failure,
\* every StudentAssignment whose assignment falls due more than 60 minutes
\* after some run of the job, and that stays PENDING, is eventually notified
\* by a run that comes before its deadline.
C34_PendingDueLaterIsEventuallyNotified ==
    \A i \in AssignmentIds : \A u \in { x \in Users : x.role_id = STUDENT } :
        (/\ scan.tick > 0
         /\ \E a \in assignments : \E sa \in studentAssignments :
              /\ a.id = i
              /\ sa.assignment_id = i
              /\ sa.student_id = u.id
              /\ sa.status_id = PENDING
              /\ a.deadline > scan.now + 120)
        ~> (\/ \E c \in log : /\ c.assignment_id = i
                              /\ c.mail.to = u.email
                              /\ c.delivered
                              /\ c.now < c.mail.deadline
            \/ \E sa \in studentAssignments : /\ sa.assignment_id = i
                                              /\ sa.student_id = u.id
                                              /\ sa.status_id # PENDING)

\* C34 happens: a reminder was delivered by the second or a later run of the
\* job for an assignment that, at the run before, was still more than an hour
\* away.
C34_Witness ==
    \E c \in log : \E a \in assignments :
        /\ c.assignment_id = a.id
        /\ c.delivered
        /\ c.tick >= 2
        /\ a.deadline > (c.now - TickPeriod) + 120
        /\ c.now < a.deadline

\* C34's case arises: after a run of the job a PENDING row is waiting whose
\* assignment falls due more than an hour after that run, and no reminder has
\* been sent for it yet.
C34_DueLaterWitness ==
    /\ scan.pc = "idle"
    /\ scan.tick > 0
    /\ log = {}
    /\ \E a \in assignments : \E sa \in studentAssignments :
        /\ sa.assignment_id = a.id
        /\ sa.status_id = PENDING
        /\ a.deadline > scan.now + 120

\* C35: every createAssignment or addSubmission call that opens a transaction
\* runs it to exactly one COMMIT or one ROLLBACK before it returns: the
\* transaction is ended by the commit or the rollback step of the handler and
\* by no other, the call returns in that very step, and no call returns,
\* with a result or with an error, while its transaction is open.
C35_TransactionEndsBeforeTheCallReturns ==
    [][ /\ (pc'[1] = "idle" => ~tx'[1].open)
        /\ (~tx[1].open /\ tx'[1].open) => pc[1] \in {"c_begin", "s_begin"}
        /\ (tx[1].open /\ ~tx'[1].open) =>
              /\ pc[1] \in {"c_commit", "s_commit", "c_rollback", "s_rollback"}
              /\ pc'[1] = "idle"
              /\ res'[1].thrown = (pc[1] \in {"c_rollback", "s_rollback"})
        /\ (tx[1].open /\ pc'[1] = "idle" /\ res'[1].thrown) =>
              <<assignments, studentAssignments, submissions>>' =
                  <<assignments, studentAssignments, submissions>>
      ]_vars

\* C35 happens: a create call that opened a transaction and had a statement
\* or its COMMIT rejected has rolled back and returned the error, and no
\* transaction is open.
C35_Witness ==
    /\ pc[1] = "idle"
    /\ req[1].op = "createAssignment"
    /\ loc[1].client
    /\ res[1].thrown
    /\ res[1].error.message = "database error"
    /\ ~tx[1].open

\* C35 happens: a submission that opened a transaction has committed and
\* returned.
C35_CommitWitness ==
    /\ pc[1] = "idle"
    /\ req[1].op = "addSubmission"
    /\ loc[1].client
    /\ ~res[1].thrown
    /\ ~tx[1].open
    /\ submissions # {}

\* C36: when createAssignment or addSubmission fails after its blob upload
\* succeeded, the uploaded blob is not rolled back: it is still in the blob
\* store (the only change the call made to it), while the database is what it
\* was before the call and no row references the blob.
C36_FailedCallKeepsItsBlob ==
    (/\ pc[1] = "idle"
     /\ req[1].op \in {"createAssignment", "addSubmission"}
     /\ res[1].thrown
     /\ loc[1].key # NoKey)
    => /\ loc[1].key \notin before[1].blobs
       /\ blobs = before[1].blobs \cup {loc[1].key}
       /\ assignments = before[1].assignments
       /\ studentAssignments = before[1].studentAssignments
       /\ submissions = before[1].submissions
       /\ \A a \in assignments : a.s3_url # S3Url(loc[1].key)
       /\ \A r \in submissions : r.s3_url # S3Url(loc[1].key)

\* C36 happens: a submission failed inside its transaction after its upload,
\* next to an assignment whose blob is referenced.
C36_Witness ==
    /\ pc[1] = "idle"
    /\ req[1].op = "addSubmission"
    /\ res[1].thrown
    /\ loc[1].key # NoKey
    /\ loc[1].client
    /\ \E a \in assignments : KeyOfUrl(a.s3_url) \in blobs

\* C36 happens for createAssignment: its fan-out failed after the upload.
C36_CreateWitness ==
    /\ pc[1] = "idle"
    /\ req[1].op = "createAssignment"
    /\ res[1].thrown
    /\ loc[1].key # NoKey
    /\ res[1].error.message = "violates foreign key constraint"

\* C37 as stated: every client beginTransaction took from the pool is given
\* back exactly once by the time createAssignment or addSubmission returns,
\* also when BEGIN, COMMIT or ROLLBACK itself fails: whenever no call is in
\* progress, no client is checked out.
C37_EveryClientIsReleased ==
    /\ pool \in {0, 1}
    /\ pc[1] = "idle" => pool = 0

\* C37, what the code does: a call that returns has given its client back
\* (once) unless its BEGIN or its ROLLBACK was rejected; after a rejected
\* ROLLBACK, and after a BEGIN rejected on a client that had left the pool,
\* the client stays checked out for good.
C37_ClientLeaksWhenBeginOrRollbackRejects ==
    [][ /\ pool' >= pool - 1
        /\ pool' < pool => (tx[1].open /\ pc'[1] = "idle")
        /\ (pc[1] # "idle" /\ pc'[1] = "idle") =>
            IF res'[1].error.message = "ROLLBACK rejected"
            THEN tx[1].open /\ pool' = pool
            ELSE IF res'[1].error.message = "BEGIN rejected"
            THEN ~tx[1].open /\ pool' \in {pool, pool + 1}
            ELSE pool' = pool - (IF tx[1].open THEN 1 ELSE 0)
      ]_vars

\* C37 happens: a call whose ROLLBACK was rejected has returned and its
\* client is still checked out.
C37_Witness ==
    /\ pc[1] = "idle"
    /\ req[1].op \in {"createAssignment", "addSubmission"}
    /\ res[1].error.message = "ROLLBACK rejected"
    /\ pool > 0

\* C37 happens for BEGIN: two calls whose BEGIN was rejected have returned
\* and two clients are checked out.
C37_BeginWitness ==
    /\ pc[1] = "idle"
    /\ res[1].error.message = "BEGIN rejected"
    /\ pool = 2

\* C38: in every reachable state every Submission row has a StudentAssignment
\* row for the same (assignment, student) pair and references an existing
\* Assignment, also when addSubmission runs next to a deleteAssignment of
\* that assignment that falls between its assigned-check and its insert.
C38_SubmissionHasAssignmentAndMapping ==
    \A r \in submissions :
        /\ \E a \in assignments : a.id = r.assignment_id
        /\ \E sa \in studentAssignments :
            /\ sa.assignment_id = r.assignment_id
            /\ sa.student_id = r.student_id

\* C38 happens: a submission that had passed the assigned-check found the
\* assignment deleted at its insert and was rolled back.
C38_Witness ==
    /\ pc[2] = "idle"
    /\ req[2].op = "addSubmission"
    /\ loc[2].studentAssignment # {}
    /\ res[2].error.message = "violates foreign key constraint"
    /\ req[1].op = "deleteAssignment"
    /\ assignments = {}
    /\ submissions = {}

\* C38 happens the other way round: the delete arrived before the submission
\* was committed, its DELETE ran after that commit and took the new
\* Submission row with the assignment.
C38_CascadeWitness ==
    /\ pc[1] = "idle"
    /\ pc[2] = "idle"
    /\ req[1].op = "deleteAssignment"
    /\ ~res[1].thrown
    /\ req[2].op = "addSubmission"
    /\ ~res[2].thrown
    /\ res[2].body # {}
    /\ before[1].submissions = {}
    /\ assignments = {}
    /\ submissions = {}

\* C39 as stated: a successful updateAssignment returns an Assignment row
\* that exists in the database with the requested fields applied, also when
\* a deleteAssignment of the same assignment by the same tutor commits
\* between the update's ownership check and its UPDATE statement.
C39_SuccessfulUpdateReturnsTheStoredRow ==
    [][ (/\ pc[2] # "idle"
         /\ pc'[2] = "idle"
         /\ req[2].op = "updateAssignment"
         /\ ~res'[2].thrown)
        => \E a \in res'[2].body :
            /\ a \in assignments'
            /\ a.id = req[2].id
            /\ req[2].title # NoTitle => a.title = req[2].title
            /\ req[2].dueDate # NoDate => a.deadline = req[2].dueDate
      ]_vars

\* C39, what the code does: when the row is still there the update returns
\* it as stored, with the requested fields applied; when it has been deleted
\* since the ownership check, the UPDATE matches no row, nothing is written,
\* and the call still succeeds (200) with no row in its response.
C39_UpdateOfDeletedRowSucceedsWithNoRow ==
    [][ (/\ pc[2] # "idle"
         /\ pc'[2] = "idle"
         /\ req[2].op = "updateAssignment"
         /\ ~res'[2].thrown)
        => /\ res'[2].status = Ok
           /\ IF \E a \in assignments : a.id = req[2].id
              THEN \E a \in assignments' :
                    /\ res'[2].body = {a}
                    /\ a.id = req[2].id
                    /\ req[2].title # NoTitle => a.title = req[2].title
              ELSE /\ res'[2].body = {}
                   /\ assignments' = assignments
      ]_vars

\* C39 happens: the owner's update passed the ownership check on a row that
\* was there when the request arrived, the owner's delete of that row
\* committed, and the update then ended successfully with no row.
C39_Witness ==
    /\ pc[2] = "idle"
    /\ req[2].op = "updateAssignment"
    /\ ~res[2].thrown
    /\ res[2].status = Ok
    /\ res[2].body = {}
    /\ \E a \in before[2].assignments :
        a.id = req[2].id /\ a.tutor_id = loc[2].userId
    /\ pc[1] = "idle"
    /\ req[1].op = "deleteAssignment"
    /\ req[1].username = req[2].username
    /\ ~res[1].thrown
    /\ assignments = {}

====
